---- MODULE Spec2Model ----
(***************************************************************************)
(* Model of the Telegram webhook responder in src/api/index.py.            *)
(*                                                                         *)
(* Strings are sequences of Unicode code points, so that str.split, the   *)
(* f-string concatenations and the UTF-8 length of a callback token are    *)
(* computed rather than assumed.  Python values (the JSON payload and the  *)
(* CONTENT dictionary) are records [t |-> type tag, v |-> tuple]; a dict   *)
(* keeps its insertion order as a sequence of <<key, value>> pairs.        *)
(***************************************************************************)
EXTENDS Integers, Sequences, FiniteSets, Bags, TLC

(***************************************************************************)
(* Python values                                                           *)
(***************************************************************************)
None == [t |-> "none", v |-> <<>>]
Num(n) == [t |-> "int", v |-> <<n>>]
Str(s) == [t |-> "str", v |-> s]
List(xs) == [t |-> "list", v |-> xs]
Dict(kvs) == [t |-> "dict", v |-> kvs]
Bool(b) == [t |-> "bool", v |-> <<b>>]
EmptyDict == Dict(<<>>)

\* A raised exception, named by its Python class.
Raise(name) == [t |-> "raise", v |-> <<name>>]
IsRaise(x) == x.t = "raise"

(***************************************************************************)
(* String literals of the source, as code points                           *)
(***************************************************************************)
\* "message"
s_message == <<109, 101, 115, 115, 97, 103, 101>>
\* "callback_query"
s_callback_query == <<99, 97, 108, 108, 98, 97, 99, 107, 95, 113, 117, 101, 114, 121>>
\* "text"
s_text == <<116, 101, 120, 116>>
\* "chat"
s_chat == <<99, 104, 97, 116>>
\* "id"
s_id == <<105, 100>>
\* "message_id"
s_message_id == <<109, 101, 115, 115, 97, 103, 101, 95, 105, 100>>
\* "data"
s_data == <<100, 97, 116, 97>>
\* "url"
s_url == <<117, 114, 108>>
\* "cat"
s_cat == <<99, 97, 116>>
\* "sub"
s_sub == <<115, 117, 98>>
\* "item"
s_item == <<105, 116, 101, 109>>
\* "|"
s_pipe == <<124>>
\* ":"
s_colon == <<58>>
\* "اختر قسمًا من الأقسام التالية:"
s_choose_category ==
    <<1575, 1582, 1578, 1585, 32, 1602, 1587, 1605, 1611, 1575, 32, 1605, 1606, 32, 1575,
      1604, 1571, 1602, 1587, 1575, 1605, 32, 1575, 1604, 1578, 1575, 1604, 1610, 1577, 58>>
\* "اختر قسمًا فرعيًا من "
s_choose_sub ==
    <<1575, 1582, 1578, 1585, 32, 1602, 1587, 1605, 1611, 1575, 32, 1601, 1585, 1593, 1610,
      1611, 1575, 32, 1605, 1606, 32>>
\* "اختر موضوعًا من "
s_choose_item ==
    <<1575, 1582, 1578, 1585, 32, 1605, 1608, 1590, 1608, 1593, 1611, 1575, 32, 1605, 1606,
      32>>
\* "\n\n📎 رابط: "
s_link == <<10, 10, 128206, 32, 1585, 1575, 1576, 1591, 58, 32>>

(***************************************************************************)
(* The catalog: category -> subcategory -> item -> {text, url}             *)
(***************************************************************************)
_build_content ==
    Dict(<<
      \* "الأدعية"
      << <<1575, 1604, 1571, 1583, 1593, 1610, 1577>>,
         Dict(<<
           \* "الأدعية العامة"
           << <<1575, 1604, 1571, 1583, 1593, 1610, 1577, 32, 1575, 1604, 1593, 1575, 1605,
             1577>>,
              Dict(<<
                \* "دعاء كميل"
                << <<1583, 1593, 1575, 1569, 32, 1603, 1605, 1610, 1604>>,
                   Dict(<<
                     << s_text, Str(<<1583, 1593, 1575, 1569, 32, 1603, 1605, 1610, 1604, 32,
                       1607, 1608, 32, 1583, 1593, 1575, 1569, 32, 1605, 1593, 1585, 1608,
                       1601, 32, 1610, 1606, 1587, 1576, 32, 1604, 1604, 1573, 1605, 1575,
                       1605, 32, 1593, 1604, 1610, 32, 1576, 1606, 32, 1571, 1576, 1610, 32,
                       1591, 1575, 1604, 1576, 32, 1593, 1604, 1610, 1607, 32, 1575, 1604,
                       1587, 1604, 1575, 1605, 46>>) >>,
                     << s_url, Str(<<104, 116, 116, 112, 115, 58, 47, 47, 104, 109, 111, 109,
                       101, 110, 46, 99, 111, 109, 47, 100, 117, 97, 97, 47, 103, 101, 110,
                       101, 114, 97, 108, 47, 100, 117, 97, 97, 45, 107, 117, 109, 97, 105,
                       108>>) >> >>) >>,
                \* "دعاء الجوشن الكبير"
                << <<1583, 1593, 1575, 1569, 32, 1575, 1604, 1580, 1608, 1588, 1606, 32, 1575,
                  1604, 1603, 1576, 1610, 1585>>,
                   Dict(<<
                     << s_text, Str(<<1583, 1593, 1575, 1569, 32, 1575, 1604, 1580, 1608, 1588,
                       1606, 32, 1575, 1604, 1603, 1576, 1610, 1585, 32, 1610, 1615, 1602,
                       1585, 1571, 32, 1601, 1610, 32, 1604, 1610, 1575, 1604, 1610, 32, 1588,
                       1607, 1585, 32, 1585, 1605, 1590, 1575, 1606, 32, 1575, 1604, 1605,
                       1576, 1575, 1585, 1603, 46>>) >>,
                     << s_url, Str(<<104, 116, 116, 112, 115, 58, 47, 47, 104, 109, 111, 109,
                       101, 110, 46, 99, 111, 109, 47, 100, 117, 97, 97, 47, 103, 101, 110,
                       101, 114, 97, 108, 47, 100, 117, 97, 97, 45, 106, 97, 119, 115, 104, 97,
                       110, 45, 107, 97, 98, 105, 114>>) >> >>) >>,
                \* "دعاء الندبة"
                << <<1583, 1593, 1575, 1569, 32, 1575, 1604, 1606, 1583, 1576, 1577>>,
                   Dict(<<
                     << s_text, Str(<<1583, 1593, 1575, 1569, 32, 1575, 1604, 1606, 1583, 1576,
                       1577, 32, 1610, 1615, 1602, 1585, 1571, 32, 1601, 1610, 32, 1575, 1604,
                       1571, 1593, 1610, 1575, 1583, 32, 1575, 1604, 1571, 1585, 1576, 1593,
                       1577, 32, 1608, 1610, 1615, 1592, 1607, 1585, 32, 1575, 1604, 1588,
                       1608, 1602, 32, 1604, 1604, 1573, 1605, 1575, 1605, 32, 1575, 1604,
                       1605, 1606, 1578, 1592, 1585, 46>>) >>,
                     << s_url, Str(<<104, 116, 116, 112, 115, 58, 47, 47, 104, 109, 111, 109,
                       101, 110, 46, 99, 111, 109, 47, 100, 117, 97, 97, 47, 103, 101, 110,
                       101, 114, 97, 108, 47, 100, 117, 97, 97, 45, 110, 117, 100, 98, 97>>) >>
                       >>) >>,
                \* "دعاء الافتتاح"
                << <<1583, 1593, 1575, 1569, 32, 1575, 1604, 1575, 1601, 1578, 1578, 1575,
                  1581>>,
                   Dict(<<
                     << s_text, Str(<<1583, 1593, 1575, 1569, 32, 1575, 1604, 1575, 1601, 1578,
                       1578, 1575, 1581, 32, 1610, 1615, 1602, 1585, 1571, 32, 1601, 1610, 32,
                       1604, 1610, 1575, 1604, 1610, 32, 1588, 1607, 1585, 32, 1585, 1605,
                       1590, 1575, 1606, 32, 1608, 1610, 1578, 1590, 1605, 1606, 32, 1575,
                       1604, 1579, 1606, 1575, 1569, 32, 1593, 1604, 1609, 32, 1575, 1604,
                       1604, 1607, 32, 1608, 1575, 1604, 1583, 1593, 1575, 1569, 32, 1604,
                       1604, 1606, 1576, 1610, 32, 1608, 1571, 1607, 1604, 32, 1576, 1610,
                       1578, 1607, 46>>) >>,
                     << s_url, Str(<<104, 116, 116, 112, 115, 58, 47, 47, 104, 109, 111, 109,
                       101, 110, 46, 99, 111, 109, 47, 100, 117, 97, 97, 47, 103, 101, 110,
                       101, 114, 97, 108, 47, 100, 117, 97, 97, 45, 105, 102, 116, 105, 116,
                       97, 104>>) >> >>) >>
              >>) >>,
           \* "أدعية الأيام"
           << <<1571, 1583, 1593, 1610, 1577, 32, 1575, 1604, 1571, 1610, 1575, 1605>>,
              Dict(<<
                \* "دعاء يوم السبت"
                << <<1583, 1593, 1575, 1569, 32, 1610, 1608, 1605, 32, 1575, 1604, 1587, 1576,
                  1578>>,
                   Dict(<<
                     << s_text, Str(<<1583, 1593, 1575, 1569, 32, 1605, 1582, 1589, 1608, 1589,
                       32, 1610, 1615, 1602, 1585, 1571, 32, 1610, 1608, 1605, 32, 1575, 1604,
                       1587, 1576, 1578, 32, 1610, 1591, 1604, 1576, 32, 1601, 1610, 1607, 32,
                       1605, 1606, 32, 1575, 1604, 1604, 1607, 32, 1575, 1604, 1601, 1585,
                       1580, 32, 1608, 1575, 1604, 1578, 1608, 1601, 1610, 1602, 46>>) >>,
                     << s_url, Str(<<104, 116, 116, 112, 115, 58, 47, 47, 104, 109, 111, 109,
                       101, 110, 46, 99, 111, 109, 47, 100, 117, 97, 97, 47, 100, 97, 121, 115,
                       47, 115, 97, 116, 117, 114, 100, 97, 121>>) >> >>) >>,
                \* "دعاء يوم الأحد"
                << <<1583, 1593, 1575, 1569, 32, 1610, 1608, 1605, 32, 1575, 1604, 1571, 1581,
                  1583>>,
                   Dict(<<
                     << s_text, Str(<<1583, 1593, 1575, 1569, 32, 1610, 1608, 1605, 32, 1575,
                       1604, 1571, 1581, 1583, 1548, 32, 1610, 1576, 1578, 1583, 1574, 32,
                       1576, 1575, 1604, 1581, 1605, 1583, 32, 1604, 1604, 1607, 32, 1608,
                       1610, 1591, 1604, 1576, 32, 1575, 1604, 1587, 1578, 1585, 32, 1608,
                       1575, 1604, 1605, 1594, 1601, 1585, 1577, 46>>) >>,
                     << s_url, Str(<<104, 116, 116, 112, 115, 58, 47, 47, 104, 109, 111, 109,
                       101, 110, 46, 99, 111, 109, 47, 100, 117, 97, 97, 47, 100, 97, 121, 115,
                       47, 115, 117, 110, 100, 97, 121>>) >> >>) >>,
                \* "دعاء يوم الاثنين"
                << <<1583, 1593, 1575, 1569, 32, 1610, 1608, 1605, 32, 1575, 1604, 1575, 1579,
                  1606, 1610, 1606>>,
                   Dict(<<
                     << s_text, Str(<<1583, 1593, 1575, 1569, 32, 1610, 1608, 1605, 32, 1575,
                       1604, 1575, 1579, 1606, 1610, 1606, 32, 1610, 1591, 1604, 1576, 32,
                       1575, 1604, 1593, 1601, 1608, 32, 1608, 1575, 1604, 1585, 1586, 1602,
                       32, 1575, 1604, 1581, 1604, 1575, 1604, 46>>) >>,
                     << s_url, Str(<<104, 116, 116, 112, 115, 58, 47, 47, 104, 109, 111, 109,
                       101, 110, 46, 99, 111, 109, 47, 100, 117, 97, 97, 47, 100, 97, 121, 115,
                       47, 109, 111, 110, 100, 97, 121>>) >> >>) >>,
                \* "دعاء يوم الثلاثاء"
                << <<1583, 1593, 1575, 1569, 32, 1610, 1608, 1605, 32, 1575, 1604, 1579, 1604,
                  1575, 1579, 1575, 1569>>,
                   Dict(<<
                     << s_text, Str(<<1583, 1593, 1575, 1569, 32, 1610, 1608, 1605, 32, 1575,
                       1604, 1579, 1604, 1575, 1579, 1575, 1569, 32, 1610, 1578, 1608, 1587,
                       1604, 32, 1573, 1604, 1609, 32, 1575, 1604, 1604, 1607, 32, 1576, 1571,
                       1587, 1605, 1575, 1569, 32, 1575, 1604, 1571, 1606, 1576, 1610, 1575,
                       1569, 32, 1593, 1604, 1610, 1607, 1605, 32, 1575, 1604, 1587, 1604,
                       1575, 1605, 46>>) >>,
                     << s_url, Str(<<104, 116, 116, 112, 115, 58, 47, 47, 104, 109, 111, 109,
                       101, 110, 46, 99, 111, 109, 47, 100, 117, 97, 97, 47, 100, 97, 121, 115,
                       47, 116, 117, 101, 115, 100, 97, 121>>) >> >>) >>,
                \* "دعاء يوم الأربعاء"
                << <<1583, 1593, 1575, 1569, 32, 1610, 1608, 1605, 32, 1575, 1604, 1571, 1585,
                  1576, 1593, 1575, 1569>>,
                   Dict(<<
                     << s_text, Str(<<1583, 1593, 1575, 1569, 32, 1610, 1608, 1605, 32, 1575,
                       1604, 1571, 1585, 1576, 1593, 1575, 1569, 32, 1610, 1583, 1593, 1608,
                       32, 1604, 1604, 1578, 1608, 1601, 1610, 1602, 32, 1608, 1575, 1604,
                       1576, 1585, 1603, 1577, 46>>) >>,
                     << s_url, Str(<<104, 116, 116, 112, 115, 58, 47, 47, 104, 109, 111, 109,
                       101, 110, 46, 99, 111, 109, 47, 100, 117, 97, 97, 47, 100, 97, 121, 115,
                       47, 119, 101, 100, 110, 101, 115, 100, 97, 121>>) >> >>) >>,
                \* "دعاء يوم الخميس"
                << <<1583, 1593, 1575, 1569, 32, 1610, 1608, 1605, 32, 1575, 1604, 1582, 1605,
                  1610, 1587>>,
                   Dict(<<
                     << s_text, Str(<<1583, 1593, 1575, 1569, 32, 1610, 1608, 1605, 32, 1575,
                       1604, 1582, 1605, 1610, 1587, 32, 1610, 1591, 1604, 1576, 32, 1575,
                       1604, 1605, 1594, 1601, 1585, 1577, 32, 1608, 1575, 1604, 1578, 1587,
                       1583, 1610, 1583, 46>>) >>,
                     << s_url, Str(<<104, 116, 116, 112, 115, 58, 47, 47, 104, 109, 111, 109,
                       101, 110, 46, 99, 111, 109, 47, 100, 117, 97, 97, 47, 100, 97, 121, 115,
                       47, 116, 104, 117, 114, 115, 100, 97, 121>>) >> >>) >>,
                \* "دعاء يوم الجمعة"
                << <<1583, 1593, 1575, 1569, 32, 1610, 1608, 1605, 32, 1575, 1604, 1580, 1605,
                  1593, 1577>>,
                   Dict(<<
                     << s_text, Str(<<1583, 1593, 1575, 1569, 32, 1610, 1608, 1605, 32, 1575,
                       1604, 1580, 1605, 1593, 1577, 32, 1610, 1615, 1603, 1579, 1585, 32,
                       1601, 1610, 1607, 32, 1575, 1604, 1579, 1606, 1575, 1569, 32, 1593,
                       1604, 1609, 32, 1575, 1604, 1604, 1607, 32, 1608, 1575, 1604, 1589,
                       1604, 1575, 1577, 32, 1593, 1604, 1609, 32, 1605, 1581, 1605, 1583, 32,
                       1608, 1570, 1604, 1607, 46>>) >>,
                     << s_url, Str(<<104, 116, 116, 112, 115, 58, 47, 47, 104, 109, 111, 109,
                       101, 110, 46, 99, 111, 109, 47, 100, 117, 97, 97, 47, 100, 97, 121, 115,
                       47, 102, 114, 105, 100, 97, 121>>) >> >>) >>
              >>) >>,
           \* "تعقيبات الصلاة"
           << <<1578, 1593, 1602, 1610, 1576, 1575, 1578, 32, 1575, 1604, 1589, 1604, 1575,
             1577>>,
              Dict(<<
                \* "أذكار بعد الصلاة"
                << <<1571, 1584, 1603, 1575, 1585, 32, 1576, 1593, 1583, 32, 1575, 1604, 1589,
                  1604, 1575, 1577>>,
                   Dict(<<
                     << s_text, Str(<<1605, 1580, 1605, 1608, 1593, 1577, 32, 1605, 1606, 32,
                       1575, 1604, 1571, 1584, 1603, 1575, 1585, 32, 1608, 1575, 1604, 1578,
                       1587, 1576, 1610, 1581, 1575, 1578, 32, 1578, 1602, 1575, 1604, 32,
                       1576, 1593, 1583, 32, 1575, 1604, 1589, 1604, 1608, 1575, 1578, 32,
                       1575, 1604, 1582, 1605, 1587, 46>>) >>,
                     << s_url, Str(<<104, 116, 116, 112, 115, 58, 47, 47, 104, 109, 111, 109,
                       101, 110, 46, 99, 111, 109, 47, 100, 117, 97, 97, 47, 97, 102, 116, 101,
                       114, 45, 112, 114, 97, 121, 101, 114, 115>>) >> >>) >>
              >>) >>,
           \* "الصلوات على الحجج الطاهرين"
           << <<1575, 1604, 1589, 1604, 1608, 1575, 1578, 32, 1593, 1604, 1609, 32, 1575, 1604,
             1581, 1580, 1580, 32, 1575, 1604, 1591, 1575, 1607, 1585, 1610, 1606>>,
              Dict(<<
                \* "الصلاة على النبي وأهل بيته"
                << <<1575, 1604, 1589, 1604, 1575, 1577, 32, 1593, 1604, 1609, 32, 1575, 1604,
                  1606, 1576, 1610, 32, 1608, 1571, 1607, 1604, 32, 1576, 1610, 1578, 1607>>,
                   Dict(<<
                     << s_text, Str(<<1589, 1604, 1608, 1575, 1578, 32, 1582, 1575, 1589, 1577,
                       32, 1593, 1604, 1609, 32, 1575, 1604, 1606, 1576, 1610, 32, 1589, 1604,
                       1609, 32, 1575, 1604, 1604, 1607, 32, 1593, 1604, 1610, 1607, 32, 1608,
                       1570, 1604, 1607, 32, 1608, 1575, 1604, 1571, 1574, 1605, 1577, 32,
                       1575, 1604, 1571, 1591, 1607, 1575, 1585, 46>>) >>,
                     << s_url, Str(<<104, 116, 116, 112, 115, 58, 47, 47, 104, 109, 111, 109,
                       101, 110, 46, 99, 111, 109, 47, 100, 117, 97, 97, 47, 115, 97, 108, 97,
                       119, 97, 116>>) >> >>) >>
              >>) >>
         >>) >>,
      \* "الزيارات"
      << <<1575, 1604, 1586, 1610, 1575, 1585, 1575, 1578>>,
         Dict(<<
           \* "الزيارات العامة"
           << <<1575, 1604, 1586, 1610, 1575, 1585, 1575, 1578, 32, 1575, 1604, 1593, 1575,
             1605, 1577>>,
              Dict(<<
                \* "زيارة عاشوراء"
                << <<1586, 1610, 1575, 1585, 1577, 32, 1593, 1575, 1588, 1608, 1585, 1575,
                  1569>>,
                   Dict(<<
                     << s_text, Str(<<1586, 1610, 1575, 1585, 1577, 32, 1593, 1575, 1588, 1608,
                       1585, 1575, 1569, 32, 1578, 1615, 1602, 1585, 1571, 32, 1604, 1573,
                       1581, 1610, 1575, 1569, 32, 1584, 1603, 1585, 1609, 32, 1575, 1604,
                       1573, 1605, 1575, 1605, 32, 1575, 1604, 1581, 1587, 1610, 1606, 32,
                       1593, 1604, 1610, 1607, 32, 1575, 1604, 1587, 1604, 1575, 1605, 46>>)
                       >>,
                     << s_url, Str(<<104, 116, 116, 112, 115, 58, 47, 47, 104, 109, 111, 109,
                       101, 110, 46, 99, 111, 109, 47, 122, 105, 121, 97, 114, 97, 116, 47,
                       103, 101, 110, 101, 114, 97, 108, 47, 122, 105, 121, 97, 114, 97, 116,
                       45, 97, 115, 104, 117, 114, 97>>) >> >>) >>,
                \* "الزيارة الجامعة الكبيرة"
                << <<1575, 1604, 1586, 1610, 1575, 1585, 1577, 32, 1575, 1604, 1580, 1575,
                  1605, 1593, 1577, 32, 1575, 1604, 1603, 1576, 1610, 1585, 1577>>,
                   Dict(<<
                     << s_text, Str(<<1586, 1610, 1575, 1585, 1577, 32, 1575, 1604, 1580, 1575,
                       1605, 1593, 1577, 32, 1575, 1604, 1603, 1576, 1610, 1585, 1577, 32,
                       1606, 1589, 1612, 32, 1580, 1575, 1605, 1593, 32, 1604, 1586, 1610,
                       1575, 1585, 1577, 32, 1575, 1604, 1571, 1574, 1605, 1577, 32, 1575,
                       1604, 1571, 1591, 1607, 1575, 1585, 46>>) >>,
                     << s_url, Str(<<104, 116, 116, 112, 115, 58, 47, 47, 104, 109, 111, 109,
                       101, 110, 46, 99, 111, 109, 47, 122, 105, 121, 97, 114, 97, 116, 47,
                       103, 101, 110, 101, 114, 97, 108, 47, 117, 110, 105, 118, 101, 114, 115,
                       105, 97, 108>>) >> >>) >>
              >>) >>,
           \* "زيارة الأئمة في أيام الأسبوع"
           << <<1586, 1610, 1575, 1585, 1577, 32, 1575, 1604, 1571, 1574, 1605, 1577, 32, 1601,
             1610, 32, 1571, 1610, 1575, 1605, 32, 1575, 1604, 1571, 1587, 1576, 1608, 1593>>,
              Dict(<<
                \* "زيارة الإمام أمير المؤمنين يوم الاثنين"
                << <<1586, 1610, 1575, 1585, 1577, 32, 1575, 1604, 1573, 1605, 1575, 1605, 32,
                  1571, 1605, 1610, 1585, 32, 1575, 1604, 1605, 1572, 1605, 1606, 1610, 1606,
                  32, 1610, 1608, 1605, 32, 1575, 1604, 1575, 1579, 1606, 1610, 1606>>,
                   Dict(<<
                     << s_text, Str(<<1586, 1610, 1575, 1585, 1577, 32, 1602, 1589, 1610, 1585,
                       1577, 32, 1578, 1615, 1602, 1585, 1571, 32, 1604, 1604, 1573, 1605,
                       1575, 1605, 32, 1593, 1604, 1610, 32, 1576, 1606, 32, 1571, 1576, 1610,
                       32, 1591, 1575, 1604, 1576, 32, 1610, 1608, 1605, 32, 1575, 1604, 1575,
                       1579, 1606, 1610, 1606, 46>>) >>,
                     << s_url, Str(<<104, 116, 116, 112, 115, 58, 47, 47, 104, 109, 111, 109,
                       101, 110, 46, 99, 111, 109, 47, 122, 105, 121, 97, 114, 97, 116, 47,
                       119, 101, 101, 107, 47, 105, 109, 97, 109, 45, 97, 108, 105, 45, 109,
                       111, 110, 100, 97, 121>>) >> >>) >>,
                \* "زيارة الإمام الحسين يوم الثلاثاء"
                << <<1586, 1610, 1575, 1585, 1577, 32, 1575, 1604, 1573, 1605, 1575, 1605, 32,
                  1575, 1604, 1581, 1587, 1610, 1606, 32, 1610, 1608, 1605, 32, 1575, 1604,
                  1579, 1604, 1575, 1579, 1575, 1569>>,
                   Dict(<<
                     << s_text, Str(<<1586, 1610, 1575, 1585, 1577, 32, 1602, 1589, 1610, 1585,
                       1577, 32, 1578, 1615, 1602, 1585, 1571, 32, 1604, 1604, 1573, 1605,
                       1575, 1605, 32, 1575, 1604, 1581, 1587, 1610, 1606, 32, 1610, 1608,
                       1605, 32, 1575, 1604, 1579, 1604, 1575, 1579, 1575, 1569, 46>>) >>,
                     << s_url, Str(<<104, 116, 116, 112, 115, 58, 47, 47, 104, 109, 111, 109,
                       101, 110, 46, 99, 111, 109, 47, 122, 105, 121, 97, 114, 97, 116, 47,
                       119, 101, 101, 107, 47, 105, 109, 97, 109, 45, 104, 117, 115, 97, 121,
                       110, 45, 116, 117, 101, 115, 100, 97, 121>>) >> >>) >>,
                \* "زيارة الإمام الكاظم والجواد يوم الأربعاء"
                << <<1586, 1610, 1575, 1585, 1577, 32, 1575, 1604, 1573, 1605, 1575, 1605, 32,
                  1575, 1604, 1603, 1575, 1592, 1605, 32, 1608, 1575, 1604, 1580, 1608, 1575,
                  1583, 32, 1610, 1608, 1605, 32, 1575, 1604, 1571, 1585, 1576, 1593, 1575,
                  1569>>,
                   Dict(<<
                     << s_text, Str(<<1586, 1610, 1575, 1585, 1577, 32, 1578, 1615, 1602, 1585,
                       1571, 32, 1604, 1604, 1573, 1605, 1575, 1605, 1610, 1606, 32, 1605,
                       1608, 1587, 1609, 32, 1575, 1604, 1603, 1575, 1592, 1605, 32, 1608,
                       1605, 1581, 1605, 1583, 32, 1575, 1604, 1580, 1608, 1575, 1583, 32,
                       1610, 1608, 1605, 32, 1575, 1604, 1571, 1585, 1576, 1593, 1575, 1569,
                       46>>) >>,
                     << s_url, Str(<<104, 116, 116, 112, 115, 58, 47, 47, 104, 109, 111, 109,
                       101, 110, 46, 99, 111, 109, 47, 122, 105, 121, 97, 114, 97, 116, 47,
                       119, 101, 101, 107, 47, 105, 109, 97, 109, 45, 107, 97, 100, 104, 105,
                       109, 45, 106, 97, 119, 97, 100, 45, 119, 101, 100, 110, 101, 115, 100,
                       97, 121>>) >> >>) >>,
                \* "زيارة الإمام الرضا والإمام الهادي يوم الخميس"
                << <<1586, 1610, 1575, 1585, 1577, 32, 1575, 1604, 1573, 1605, 1575, 1605, 32,
                  1575, 1604, 1585, 1590, 1575, 32, 1608, 1575, 1604, 1573, 1605, 1575, 1605,
                  32, 1575, 1604, 1607, 1575, 1583, 1610, 32, 1610, 1608, 1605, 32, 1575, 1604,
                  1582, 1605, 1610, 1587>>,
                   Dict(<<
                     << s_text, Str(<<1586, 1610, 1575, 1585, 1577, 32, 1578, 1615, 1602, 1585,
                       1571, 32, 1604, 1604, 1573, 1605, 1575, 1605, 1610, 1606, 32, 1593,
                       1604, 1610, 32, 1575, 1604, 1585, 1590, 1575, 32, 1608, 1593, 1604,
                       1610, 32, 1575, 1604, 1607, 1575, 1583, 1610, 32, 1610, 1608, 1605, 32,
                       1575, 1604, 1582, 1605, 1610, 1587, 46>>) >>,
                     << s_url, Str(<<104, 116, 116, 112, 115, 58, 47, 47, 104, 109, 111, 109,
                       101, 110, 46, 99, 111, 109, 47, 122, 105, 121, 97, 114, 97, 116, 47,
                       119, 101, 101, 107, 47, 105, 109, 97, 109, 45, 114, 101, 100, 104, 97,
                       45, 104, 97, 100, 105, 45, 116, 104, 117, 114, 115, 100, 97, 121>>) >>
                       >>) >>,
                \* "زيارة النبي الأكرم يوم الجمعة"
                << <<1586, 1610, 1575, 1585, 1577, 32, 1575, 1604, 1606, 1576, 1610, 32, 1575,
                  1604, 1571, 1603, 1585, 1605, 32, 1610, 1608, 1605, 32, 1575, 1604, 1580,
                  1605, 1593, 1577>>,
                   Dict(<<
                     << s_text, Str(<<1586, 1610, 1575, 1585, 1577, 32, 1602, 1589, 1610, 1585,
                       1577, 32, 1578, 1615, 1602, 1585, 1571, 32, 1604, 1604, 1606, 1576,
                       1610, 32, 1605, 1581, 1605, 1583, 32, 1589, 1604, 1609, 32, 1575, 1604,
                       1604, 1607, 32, 1593, 1604, 1610, 1607, 32, 1608, 1570, 1604, 1607, 32,
                       1610, 1608, 1605, 32, 1575, 1604, 1580, 1605, 1593, 1577, 46>>) >>,
                     << s_url, Str(<<104, 116, 116, 112, 115, 58, 47, 47, 104, 109, 111, 109,
                       101, 110, 46, 99, 111, 109, 47, 122, 105, 121, 97, 114, 97, 116, 47,
                       119, 101, 101, 107, 47, 112, 114, 111, 112, 104, 101, 116, 45, 102, 114,
                       105, 100, 97, 121>>) >> >>) >>
              >>) >>
         >>) >>,
      \* "المناجات والتسابيح"
      << <<1575, 1604, 1605, 1606, 1575, 1580, 1575, 1578, 32, 1608, 1575, 1604, 1578, 1587,
        1575, 1576, 1610, 1581>>,
         Dict(<<
           \* "المناجات"
           << <<1575, 1604, 1605, 1606, 1575, 1580, 1575, 1578>>,
              Dict(<<
                \* "مناجاة التائبين"
                << <<1605, 1606, 1575, 1580, 1575, 1577, 32, 1575, 1604, 1578, 1575, 1574,
                  1576, 1610, 1606>>,
                   Dict(<<
                     << s_text, Str(<<1605, 1606, 1575, 1580, 1575, 1577, 32, 1575, 1604, 1578,
                       1575, 1574, 1576, 1610, 1606, 32, 1605, 1606, 1575, 1580, 1575, 1577,
                       32, 1578, 1608, 1576, 1577, 32, 1608, 1606, 1583, 1605, 46>>) >>,
                     << s_url, Str(<<104, 116, 116, 112, 115, 58, 47, 47, 104, 109, 111, 109,
                       101, 110, 46, 99, 111, 109, 47, 109, 117, 110, 97, 106, 97, 116, 47,
                       114, 101, 112, 101, 110, 116, 97, 110, 116>>) >> >>) >>,
                \* "مناجاة الشاكرين"
                << <<1605, 1606, 1575, 1580, 1575, 1577, 32, 1575, 1604, 1588, 1575, 1603,
                  1585, 1610, 1606>>,
                   Dict(<<
                     << s_text, Str(<<1605, 1606, 1575, 1580, 1575, 1577, 32, 1575, 1604, 1588,
                       1575, 1603, 1585, 1610, 1606, 32, 1578, 1588, 1603, 1585, 32, 1575,
                       1604, 1604, 1607, 32, 1593, 1604, 1609, 32, 1606, 1593, 1605, 1607,
                       46>>) >>,
                     << s_url, Str(<<104, 116, 116, 112, 115, 58, 47, 47, 104, 109, 111, 109,
                       101, 110, 46, 99, 111, 109, 47, 109, 117, 110, 97, 106, 97, 116, 47,
                       103, 114, 97, 116, 101, 102, 117, 108>>) >> >>) >>,
                \* "مناجاة المحبين"
                << <<1605, 1606, 1575, 1580, 1575, 1577, 32, 1575, 1604, 1605, 1581, 1576,
                  1610, 1606>>,
                   Dict(<<
                     << s_text, Str(<<1605, 1606, 1575, 1580, 1575, 1577, 32, 1575, 1604, 1605,
                       1581, 1576, 1610, 1606, 32, 1578, 1593, 1576, 1617, 1585, 32, 1593,
                       1606, 32, 1581, 1576, 32, 1575, 1604, 1604, 1607, 46>>) >>,
                     << s_url, Str(<<104, 116, 116, 112, 115, 58, 47, 47, 104, 109, 111, 109,
                       101, 110, 46, 99, 111, 109, 47, 109, 117, 110, 97, 106, 97, 116, 47,
                       108, 111, 118, 101, 114, 115>>) >> >>) >>
              >>) >>,
           \* "التسابيح"
           << <<1575, 1604, 1578, 1587, 1575, 1576, 1610, 1581>>,
              Dict(<<
                \* "تسبيح يوم السبت"
                << <<1578, 1587, 1576, 1610, 1581, 32, 1610, 1608, 1605, 32, 1575, 1604, 1587,
                  1576, 1578>>,
                   Dict(<<
                     << s_text, Str(<<1578, 1587, 1576, 1610, 1581, 32, 1610, 1602, 1575, 1604,
                       32, 1610, 1608, 1605, 32, 1575, 1604, 1587, 1576, 1578, 32, 1610, 1578,
                       1590, 1605, 1606, 32, 1584, 1603, 1585, 32, 1575, 1604, 1604, 1607, 32,
                       1608, 1575, 1604, 1578, 1590, 1585, 1593, 46>>) >>,
                     << s_url, Str(<<104, 116, 116, 112, 115, 58, 47, 47, 104, 109, 111, 109,
                       101, 110, 46, 99, 111, 109, 47, 116, 97, 115, 98, 105, 104, 47, 115, 97,
                       116, 117, 114, 100, 97, 121>>) >> >>) >>,
                \* "تسبيح يوم الأحد"
                << <<1578, 1587, 1576, 1610, 1581, 32, 1610, 1608, 1605, 32, 1575, 1604, 1571,
                  1581, 1583>>,
                   Dict(<<
                     << s_text, Str(<<1578, 1587, 1576, 1610, 1581, 32, 1610, 1608, 1605, 32,
                       1575, 1604, 1571, 1581, 1583, 32, 1610, 1581, 1608, 1610, 32, 1578,
                       1605, 1580, 1610, 1583, 1611, 1575, 32, 1604, 1604, 1607, 32, 1593,
                       1586, 32, 1608, 1580, 1604, 46>>) >>,
                     << s_url, Str(<<104, 116, 116, 112, 115, 58, 47, 47, 104, 109, 111, 109,
                       101, 110, 46, 99, 111, 109, 47, 116, 97, 115, 98, 105, 104, 47, 115,
                       117, 110, 100, 97, 121>>) >> >>) >>,
                \* "تسبيح يوم الاثنين"
                << <<1578, 1587, 1576, 1610, 1581, 32, 1610, 1608, 1605, 32, 1575, 1604, 1575,
                  1579, 1606, 1610, 1606>>,
                   Dict(<<
                     << s_text, Str(<<1578, 1587, 1576, 1610, 1581, 32, 1610, 1608, 1605, 32,
                       1575, 1604, 1575, 1579, 1606, 1610, 1606, 32, 1610, 1583, 1593, 1608,
                       32, 1604, 1604, 1607, 32, 1576, 1575, 1604, 1585, 1581, 1605, 1577,
                       46>>) >>,
                     << s_url, Str(<<104, 116, 116, 112, 115, 58, 47, 47, 104, 109, 111, 109,
                       101, 110, 46, 99, 111, 109, 47, 116, 97, 115, 98, 105, 104, 47, 109,
                       111, 110, 100, 97, 121>>) >> >>) >>,
                \* "تسبيح يوم الثلاثاء"
                << <<1578, 1587, 1576, 1610, 1581, 32, 1610, 1608, 1605, 32, 1575, 1604, 1579,
                  1604, 1575, 1579, 1575, 1569>>,
                   Dict(<<
                     << s_text, Str(<<1578, 1587, 1576, 1610, 1581, 32, 1610, 1608, 1605, 32,
                       1575, 1604, 1579, 1604, 1575, 1579, 1575, 1569, 32, 1610, 1578, 1590,
                       1605, 1606, 32, 1575, 1604, 1581, 1605, 1583, 32, 1608, 1575, 1604,
                       1588, 1603, 1585, 46>>) >>,
                     << s_url, Str(<<104, 116, 116, 112, 115, 58, 47, 47, 104, 109, 111, 109,
                       101, 110, 46, 99, 111, 109, 47, 116, 97, 115, 98, 105, 104, 47, 116,
                       117, 101, 115, 100, 97, 121>>) >> >>) >>,
                \* "تسبيح يوم الأربعاء"
                << <<1578, 1587, 1576, 1610, 1581, 32, 1610, 1608, 1605, 32, 1575, 1604, 1571,
                  1585, 1576, 1593, 1575, 1569>>,
                   Dict(<<
                     << s_text, Str(<<1578, 1587, 1576, 1610, 1581, 32, 1610, 1608, 1605, 32,
                       1575, 1604, 1571, 1585, 1576, 1593, 1575, 1569, 32, 1610, 1603, 1579,
                       1585, 32, 1601, 1610, 1607, 32, 1575, 1604, 1575, 1587, 1578, 1594,
                       1601, 1575, 1585, 46>>) >>,
                     << s_url, Str(<<104, 116, 116, 112, 115, 58, 47, 47, 104, 109, 111, 109,
                       101, 110, 46, 99, 111, 109, 47, 116, 97, 115, 98, 105, 104, 47, 119,
                       101, 100, 110, 101, 115, 100, 97, 121>>) >> >>) >>,
                \* "تسبيح يوم الخميس"
                << <<1578, 1587, 1576, 1610, 1581, 32, 1610, 1608, 1605, 32, 1575, 1604, 1582,
                  1605, 1610, 1587>>,
                   Dict(<<
                     << s_text, Str(<<1578, 1587, 1576, 1610, 1581, 32, 1610, 1608, 1605, 32,
                       1575, 1604, 1582, 1605, 1610, 1587, 32, 1610, 1588, 1578, 1605, 1604,
                       32, 1593, 1604, 1609, 32, 1575, 1604, 1579, 1606, 1575, 1569, 32, 1608,
                       1575, 1604, 1578, 1602, 1583, 1610, 1587, 46>>) >>,
                     << s_url, Str(<<104, 116, 116, 112, 115, 58, 47, 47, 104, 109, 111, 109,
                       101, 110, 46, 99, 111, 109, 47, 116, 97, 115, 98, 105, 104, 47, 116,
                       104, 117, 114, 115, 100, 97, 121>>) >> >>) >>,
                \* "تسبيح يوم الجمعة"
                << <<1578, 1587, 1576, 1610, 1581, 32, 1610, 1608, 1605, 32, 1575, 1604, 1580,
                  1605, 1593, 1577>>,
                   Dict(<<
                     << s_text, Str(<<1578, 1587, 1576, 1610, 1581, 32, 1610, 1608, 1605, 32,
                       1575, 1604, 1580, 1605, 1593, 1577, 32, 1610, 1615, 1587, 1578, 1581,
                       1576, 32, 1573, 1603, 1579, 1575, 1585, 1607, 1548, 32, 1608, 1610,
                       1588, 1605, 1604, 32, 1575, 1604, 1589, 1604, 1575, 1577, 32, 1593,
                       1604, 1609, 32, 1605, 1581, 1605, 1583, 32, 1608, 1570, 1604, 1607,
                       46>>) >>,
                     << s_url, Str(<<104, 116, 116, 112, 115, 58, 47, 47, 104, 109, 111, 109,
                       101, 110, 46, 99, 111, 109, 47, 116, 97, 115, 98, 105, 104, 47, 102,
                       114, 105, 100, 97, 121>>) >> >>) >>
              >>) >>
         >>) >>,
      \* "الأعمال"
      << <<1575, 1604, 1571, 1593, 1605, 1575, 1604>>,
         Dict(<<
           \* "محرم"
           << <<1605, 1581, 1585, 1605>>,
              Dict(<<
                \* "أعمال الليلة الأولى"
                << <<1571, 1593, 1605, 1575, 1604, 32, 1575, 1604, 1604, 1610, 1604, 1577, 32,
                  1575, 1604, 1571, 1608, 1604, 1609>>,
                   Dict(<<
                     << s_text, Str(<<1571, 1593, 1605, 1575, 1604, 32, 1593, 1576, 1575, 1583,
                       1577, 32, 1604, 1604, 1610, 1604, 1577, 32, 1575, 1604, 1571, 1608,
                       1604, 1609, 32, 1605, 1606, 32, 1588, 1607, 1585, 32, 1605, 1581, 1585,
                       1605, 46>>) >>,
                     << s_url, Str(<<104, 116, 116, 112, 115, 58, 47, 47, 104, 109, 111, 109,
                       101, 110, 46, 99, 111, 109, 47, 97, 109, 97, 108, 47, 109, 117, 104, 97,
                       114, 114, 97, 109, 47, 110, 105, 103, 104, 116, 49>>) >> >>) >>,
                \* "أعمال اليوم الأول"
                << <<1571, 1593, 1605, 1575, 1604, 32, 1575, 1604, 1610, 1608, 1605, 32, 1575,
                  1604, 1571, 1608, 1604>>,
                   Dict(<<
                     << s_text, Str(<<1571, 1593, 1605, 1575, 1604, 32, 1575, 1604, 1610, 1608,
                       1605, 32, 1575, 1604, 1571, 1608, 1604, 32, 1578, 1588, 1605, 1604, 32,
                       1575, 1604, 1589, 1610, 1575, 1605, 32, 1608, 1575, 1604, 1583, 1593,
                       1575, 1569, 46>>) >>,
                     << s_url, Str(<<104, 116, 116, 112, 115, 58, 47, 47, 104, 109, 111, 109,
                       101, 110, 46, 99, 111, 109, 47, 97, 109, 97, 108, 47, 109, 117, 104, 97,
                       114, 114, 97, 109, 47, 100, 97, 121, 49>>) >> >>) >>,
                \* "أعمال يوم التاسع"
                << <<1571, 1593, 1605, 1575, 1604, 32, 1610, 1608, 1605, 32, 1575, 1604, 1578,
                  1575, 1587, 1593>>,
                   Dict(<<
                     << s_text, Str(<<1571, 1593, 1605, 1575, 1604, 32, 1610, 1608, 1605, 32,
                       1575, 1604, 1578, 1575, 1587, 1593, 32, 1605, 1606, 32, 1605, 1581,
                       1585, 1605, 32, 1578, 1578, 1590, 1605, 1606, 32, 1586, 1610, 1575,
                       1585, 1577, 32, 1575, 1604, 1573, 1605, 1575, 1605, 32, 1575, 1604,
                       1581, 1587, 1610, 1606, 46>>) >>,
                     << s_url, Str(<<104, 116, 116, 112, 115, 58, 47, 47, 104, 109, 111, 109,
                       101, 110, 46, 99, 111, 109, 47, 97, 109, 97, 108, 47, 109, 117, 104, 97,
                       114, 114, 97, 109, 47, 100, 97, 121, 57>>) >> >>) >>,
                \* "أعمال يوم العاشر"
                << <<1571, 1593, 1605, 1575, 1604, 32, 1610, 1608, 1605, 32, 1575, 1604, 1593,
                  1575, 1588, 1585>>,
                   Dict(<<
                     << s_text, Str(<<1571, 1593, 1605, 1575, 1604, 32, 1593, 1575, 1588, 1608,
                       1585, 1575, 1569, 32, 1578, 1578, 1590, 1605, 1606, 32, 1575, 1604,
                       1583, 1593, 1575, 1569, 32, 1608, 1575, 1604, 1576, 1603, 1575, 1569,
                       32, 1593, 1604, 1609, 32, 1575, 1604, 1573, 1605, 1575, 1605, 32, 1575,
                       1604, 1581, 1587, 1610, 1606, 46>>) >>,
                     << s_url, Str(<<104, 116, 116, 112, 115, 58, 47, 47, 104, 109, 111, 109,
                       101, 110, 46, 99, 111, 109, 47, 97, 109, 97, 108, 47, 109, 117, 104, 97,
                       114, 114, 97, 109, 47, 100, 97, 121, 49, 48>>) >> >>) >>
              >>) >>,
           \* "صفر"
           << <<1589, 1601, 1585>>,
              Dict(<<
                \* "أعمال اليوم الأول"
                << <<1571, 1593, 1605, 1575, 1604, 32, 1575, 1604, 1610, 1608, 1605, 32, 1575,
                  1604, 1571, 1608, 1604>>,
                   Dict(<<
                     << s_text, Str(<<1571, 1593, 1605, 1575, 1604, 32, 1575, 1604, 1610, 1608,
                       1605, 32, 1575, 1604, 1571, 1608, 1604, 32, 1605, 1606, 32, 1588, 1607,
                       1585, 32, 1589, 1601, 1585, 32, 1578, 1578, 1590, 1605, 1606, 32, 1575,
                       1604, 1589, 1583, 1602, 1577, 32, 1608, 1575, 1604, 1589, 1604, 1575,
                       1577, 46>>) >>,
                     << s_url, Str(<<104, 116, 116, 112, 115, 58, 47, 47, 104, 109, 111, 109,
                       101, 110, 46, 99, 111, 109, 47, 97, 109, 97, 108, 47, 115, 97, 102, 97,
                       114, 47, 100, 97, 121, 49>>) >> >>) >>,
                \* "أعمال اليوم الثالث والعشرين"
                << <<1571, 1593, 1605, 1575, 1604, 32, 1575, 1604, 1610, 1608, 1605, 32, 1575,
                  1604, 1579, 1575, 1604, 1579, 32, 1608, 1575, 1604, 1593, 1588, 1585, 1610,
                  1606>>,
                   Dict(<<
                     << s_text, Str(<<1571, 1593, 1605, 1575, 1604, 32, 1575, 1604, 1610, 1608,
                       1605, 32, 1575, 1604, 1579, 1575, 1604, 1579, 32, 1608, 1575, 1604,
                       1593, 1588, 1585, 1610, 1606, 32, 1605, 1606, 32, 1589, 1601, 1585, 32,
                       1578, 1588, 1605, 1604, 32, 1586, 1610, 1575, 1585, 1577, 32, 1575,
                       1604, 1573, 1605, 1575, 1605, 32, 1575, 1604, 1581, 1587, 1610, 1606,
                       46>>) >>,
                     << s_url, Str(<<104, 116, 116, 112, 115, 58, 47, 47, 104, 109, 111, 109,
                       101, 110, 46, 99, 111, 109, 47, 97, 109, 97, 108, 47, 115, 97, 102, 97,
                       114, 47, 100, 97, 121, 50, 51>>) >> >>) >>
              >>) >>,
           \* "ربيع الأول"
           << <<1585, 1576, 1610, 1593, 32, 1575, 1604, 1571, 1608, 1604>>,
              Dict(<<
                \* "أعمال اليوم الأول"
                << <<1571, 1593, 1605, 1575, 1604, 32, 1575, 1604, 1610, 1608, 1605, 32, 1575,
                  1604, 1571, 1608, 1604>>,
                   Dict(<<
                     << s_text, Str(<<1571, 1593, 1605, 1575, 1604, 32, 1575, 1604, 1610, 1608,
                       1605, 32, 1575, 1604, 1571, 1608, 1604, 32, 1605, 1606, 32, 1585, 1576,
                       1610, 1593, 32, 1575, 1604, 1571, 1608, 1604, 46>>) >>,
                     << s_url, Str(<<104, 116, 116, 112, 115, 58, 47, 47, 104, 109, 111, 109,
                       101, 110, 46, 99, 111, 109, 47, 97, 109, 97, 108, 47, 114, 97, 98, 101,
                       101, 49, 47, 100, 97, 121, 49>>) >> >>) >>,
                \* "أعمال اليوم الثاني عشر"
                << <<1571, 1593, 1605, 1575, 1604, 32, 1575, 1604, 1610, 1608, 1605, 32, 1575,
                  1604, 1579, 1575, 1606, 1610, 32, 1593, 1588, 1585>>,
                   Dict(<<
                     << s_text, Str(<<1571, 1593, 1605, 1575, 1604, 32, 1575, 1604, 1610, 1608,
                       1605, 32, 1575, 1604, 1579, 1575, 1606, 1610, 32, 1593, 1588, 1585, 32,
                       1578, 1588, 1605, 1604, 32, 1575, 1604, 1575, 1581, 1578, 1601, 1575,
                       1604, 32, 1576, 1605, 1608, 1604, 1583, 32, 1575, 1604, 1606, 1576,
                       1610, 46>>) >>,
                     << s_url, Str(<<104, 116, 116, 112, 115, 58, 47, 47, 104, 109, 111, 109,
                       101, 110, 46, 99, 111, 109, 47, 97, 109, 97, 108, 47, 114, 97, 98, 101,
                       101, 49, 47, 100, 97, 121, 49, 50>>) >> >>) >>,
                \* "أعمال الليلة التاسعة عشرة"
                << <<1571, 1593, 1605, 1575, 1604, 32, 1575, 1604, 1604, 1610, 1604, 1577, 32,
                  1575, 1604, 1578, 1575, 1587, 1593, 1577, 32, 1593, 1588, 1585, 1577>>,
                   Dict(<<
                     << s_text, Str(<<1571, 1593, 1605, 1575, 1604, 32, 1575, 1604, 1604, 1610,
                       1604, 1577, 32, 1575, 1604, 1578, 1575, 1587, 1593, 1577, 32, 1593,
                       1588, 1585, 1577, 32, 1605, 1606, 32, 1585, 1576, 1610, 1593, 32, 1575,
                       1604, 1571, 1608, 1604, 46>>) >>,
                     << s_url, Str(<<104, 116, 116, 112, 115, 58, 47, 47, 104, 109, 111, 109,
                       101, 110, 46, 99, 111, 109, 47, 97, 109, 97, 108, 47, 114, 97, 98, 101,
                       101, 49, 47, 110, 105, 103, 104, 116, 49, 57>>) >> >>) >>
              >>) >>,
           \* "رجب"
           << <<1585, 1580, 1576>>,
              Dict(<<
                \* "أعمال الليلة الثالثة"
                << <<1571, 1593, 1605, 1575, 1604, 32, 1575, 1604, 1604, 1610, 1604, 1577, 32,
                  1575, 1604, 1579, 1575, 1604, 1579, 1577>>,
                   Dict(<<
                     << s_text, Str(<<1571, 1593, 1605, 1575, 1604, 32, 1575, 1604, 1604, 1610,
                       1604, 1577, 32, 1575, 1604, 1579, 1575, 1604, 1579, 1577, 32, 1605,
                       1606, 32, 1588, 1607, 1585, 32, 1585, 1580, 1576, 46>>) >>,
                     << s_url, Str(<<104, 116, 116, 112, 115, 58, 47, 47, 104, 109, 111, 109,
                       101, 110, 46, 99, 111, 109, 47, 97, 109, 97, 108, 47, 114, 97, 106, 97,
                       98, 47, 110, 105, 103, 104, 116, 51>>) >> >>) >>,
                \* "أعمال الليلة الرابعة"
                << <<1571, 1593, 1605, 1575, 1604, 32, 1575, 1604, 1604, 1610, 1604, 1577, 32,
                  1575, 1604, 1585, 1575, 1576, 1593, 1577>>,
                   Dict(<<
                     << s_text, Str(<<1571, 1593, 1605, 1575, 1604, 32, 1575, 1604, 1604, 1610,
                       1604, 1577, 32, 1575, 1604, 1585, 1575, 1576, 1593, 1577, 32, 1605,
                       1606, 32, 1585, 1580, 1576, 46>>) >>,
                     << s_url, Str(<<104, 116, 116, 112, 115, 58, 47, 47, 104, 109, 111, 109,
                       101, 110, 46, 99, 111, 109, 47, 97, 109, 97, 108, 47, 114, 97, 106, 97,
                       98, 47, 110, 105, 103, 104, 116, 52>>) >> >>) >>,
                \* "أعمال الليلة الخامسة"
                << <<1571, 1593, 1605, 1575, 1604, 32, 1575, 1604, 1604, 1610, 1604, 1577, 32,
                  1575, 1604, 1582, 1575, 1605, 1587, 1577>>,
                   Dict(<<
                     << s_text, Str(<<1571, 1593, 1605, 1575, 1604, 32, 1575, 1604, 1604, 1610,
                       1604, 1577, 32, 1575, 1604, 1582, 1575, 1605, 1587, 1577, 32, 1605,
                       1606, 32, 1585, 1580, 1576, 46>>) >>,
                     << s_url, Str(<<104, 116, 116, 112, 115, 58, 47, 47, 104, 109, 111, 109,
                       101, 110, 46, 99, 111, 109, 47, 97, 109, 97, 108, 47, 114, 97, 106, 97,
                       98, 47, 110, 105, 103, 104, 116, 53>>) >> >>) >>,
                \* "أعمال الليلة التاسعة"
                << <<1571, 1593, 1605, 1575, 1604, 32, 1575, 1604, 1604, 1610, 1604, 1577, 32,
                  1575, 1604, 1578, 1575, 1587, 1593, 1577>>,
                   Dict(<<
                     << s_text, Str(<<1571, 1593, 1605, 1575, 1604, 32, 1575, 1604, 1604, 1610,
                       1604, 1577, 32, 1575, 1604, 1578, 1575, 1587, 1593, 1577, 32, 1605,
                       1606, 32, 1585, 1580, 1576, 46>>) >>,
                     << s_url, Str(<<104, 116, 116, 112, 115, 58, 47, 47, 104, 109, 111, 109,
                       101, 110, 46, 99, 111, 109, 47, 97, 109, 97, 108, 47, 114, 97, 106, 97,
                       98, 47, 110, 105, 103, 104, 116, 57>>) >> >>) >>,
                \* "أعمال الليلة الرابعة والعشرين"
                << <<1571, 1593, 1605, 1575, 1604, 32, 1575, 1604, 1604, 1610, 1604, 1577, 32,
                  1575, 1604, 1585, 1575, 1576, 1593, 1577, 32, 1608, 1575, 1604, 1593, 1588,
                  1585, 1610, 1606>>,
                   Dict(<<
                     << s_text, Str(<<1571, 1593, 1605, 1575, 1604, 32, 1575, 1604, 1604, 1610,
                       1604, 1577, 32, 1575, 1604, 1585, 1575, 1576, 1593, 1577, 32, 1608,
                       1575, 1604, 1593, 1588, 1585, 1610, 1606, 32, 1605, 1606, 32, 1585,
                       1580, 1576, 46>>) >>,
                     << s_url, Str(<<104, 116, 116, 112, 115, 58, 47, 47, 104, 109, 111, 109,
                       101, 110, 46, 99, 111, 109, 47, 97, 109, 97, 108, 47, 114, 97, 106, 97,
                       98, 47, 110, 105, 103, 104, 116, 50, 52>>) >> >>) >>
              >>) >>,
           \* "شعبان"
           << <<1588, 1593, 1576, 1575, 1606>>,
              Dict(<<
                \* "أعمال اليوم الأول"
                << <<1571, 1593, 1605, 1575, 1604, 32, 1575, 1604, 1610, 1608, 1605, 32, 1575,
                  1604, 1571, 1608, 1604>>,
                   Dict(<<
                     << s_text, Str(<<1571, 1593, 1605, 1575, 1604, 32, 1575, 1604, 1610, 1608,
                       1605, 32, 1575, 1604, 1571, 1608, 1604, 32, 1605, 1606, 32, 1588, 1593,
                       1576, 1575, 1606, 46>>) >>,
                     << s_url, Str(<<104, 116, 116, 112, 115, 58, 47, 47, 104, 109, 111, 109,
                       101, 110, 46, 99, 111, 109, 47, 97, 109, 97, 108, 47, 115, 104, 97, 98,
                       97, 110, 47, 100, 97, 121, 49>>) >> >>) >>,
                \* "أعمال اليوم الثاني"
                << <<1571, 1593, 1605, 1575, 1604, 32, 1575, 1604, 1610, 1608, 1605, 32, 1575,
                  1604, 1579, 1575, 1606, 1610>>,
                   Dict(<<
                     << s_text, Str(<<1571, 1593, 1605, 1575, 1604, 32, 1575, 1604, 1610, 1608,
                       1605, 32, 1575, 1604, 1579, 1575, 1606, 1610, 32, 1605, 1606, 32, 1588,
                       1593, 1576, 1575, 1606, 46>>) >>,
                     << s_url, Str(<<104, 116, 116, 112, 115, 58, 47, 47, 104, 109, 111, 109,
                       101, 110, 46, 99, 111, 109, 47, 97, 109, 97, 108, 47, 115, 104, 97, 98,
                       97, 110, 47, 100, 97, 121, 50>>) >> >>) >>,
                \* "أعمال اليوم الثالث"
                << <<1571, 1593, 1605, 1575, 1604, 32, 1575, 1604, 1610, 1608, 1605, 32, 1575,
                  1604, 1579, 1575, 1604, 1579>>,
                   Dict(<<
                     << s_text, Str(<<1571, 1593, 1605, 1575, 1604, 32, 1575, 1604, 1610, 1608,
                       1605, 32, 1575, 1604, 1579, 1575, 1604, 1579, 32, 1605, 1606, 32, 1588,
                       1593, 1576, 1575, 1606, 46>>) >>,
                     << s_url, Str(<<104, 116, 116, 112, 115, 58, 47, 47, 104, 109, 111, 109,
                       101, 110, 46, 99, 111, 109, 47, 97, 109, 97, 108, 47, 115, 104, 97, 98,
                       97, 110, 47, 100, 97, 121, 51>>) >> >>) >>
              >>) >>,
           \* "شوال"
           << <<1588, 1608, 1575, 1604>>,
              Dict(<<
                \* "أعمال الليلة الأولى"
                << <<1571, 1593, 1605, 1575, 1604, 32, 1575, 1604, 1604, 1610, 1604, 1577, 32,
                  1575, 1604, 1571, 1608, 1604, 1609>>,
                   Dict(<<
                     << s_text, Str(<<1571, 1593, 1605, 1575, 1604, 32, 1575, 1604, 1604, 1610,
                       1604, 1577, 32, 1575, 1604, 1571, 1608, 1604, 1609, 32, 1605, 1606, 32,
                       1588, 1608, 1575, 1604, 46>>) >>,
                     << s_url, Str(<<104, 116, 116, 112, 115, 58, 47, 47, 104, 109, 111, 109,
                       101, 110, 46, 99, 111, 109, 47, 97, 109, 97, 108, 47, 115, 104, 97, 119,
                       119, 97, 108, 47, 110, 105, 103, 104, 116, 49>>) >> >>) >>,
                \* "أعمال اليوم الأول"
                << <<1571, 1593, 1605, 1575, 1604, 32, 1575, 1604, 1610, 1608, 1605, 32, 1575,
                  1604, 1571, 1608, 1604>>,
                   Dict(<<
                     << s_text, Str(<<1571, 1593, 1605, 1575, 1604, 32, 1575, 1604, 1610, 1608,
                       1605, 32, 1575, 1604, 1571, 1608, 1604, 32, 1605, 1606, 32, 1588, 1608,
                       1575, 1604, 32, 1608, 1578, 1588, 1605, 1604, 32, 1589, 1604, 1575,
                       1577, 32, 1575, 1604, 1593, 1610, 1583, 46>>) >>,
                     << s_url, Str(<<104, 116, 116, 112, 115, 58, 47, 47, 104, 109, 111, 109,
                       101, 110, 46, 99, 111, 109, 47, 97, 109, 97, 108, 47, 115, 104, 97, 119,
                       119, 97, 108, 47, 100, 97, 121, 49>>) >> >>) >>
              >>) >>,
           \* "ذو القعدة"
           << <<1584, 1608, 32, 1575, 1604, 1602, 1593, 1583, 1577>>,
              Dict(<<
                \* "أعمال عامة"
                << <<1571, 1593, 1605, 1575, 1604, 32, 1593, 1575, 1605, 1577>>,
                   Dict(<<
                     << s_text, Str(<<1571, 1593, 1605, 1575, 1604, 32, 1593, 1575, 1605, 1577,
                       32, 1604, 1588, 1607, 1585, 32, 1584, 1608, 32, 1575, 1604, 1602, 1593,
                       1583, 1577, 46>>) >>,
                     << s_url, Str(<<104, 116, 116, 112, 115, 58, 47, 47, 104, 109, 111, 109,
                       101, 110, 46, 99, 111, 109, 47, 97, 109, 97, 108, 47, 122, 117, 108,
                       113, 97, 100, 97, 104, 47, 103, 101, 110, 101, 114, 97, 108>>) >> >>)
                       >>,
                \* "أعمال اليوم الخامس"
                << <<1571, 1593, 1605, 1575, 1604, 32, 1575, 1604, 1610, 1608, 1605, 32, 1575,
                  1604, 1582, 1575, 1605, 1587>>,
                   Dict(<<
                     << s_text, Str(<<1571, 1593, 1605, 1575, 1604, 32, 1575, 1604, 1610, 1608,
                       1605, 32, 1575, 1604, 1582, 1575, 1605, 1587, 32, 1605, 1606, 32, 1584,
                       1608, 32, 1575, 1604, 1602, 1593, 1583, 1577, 46>>) >>,
                     << s_url, Str(<<104, 116, 116, 112, 115, 58, 47, 47, 104, 109, 111, 109,
                       101, 110, 46, 99, 111, 109, 47, 97, 109, 97, 108, 47, 122, 117, 108,
                       113, 97, 100, 97, 104, 47, 100, 97, 121, 53>>) >> >>) >>,
                \* "أعمال اليوم الحادي عشر"
                << <<1571, 1593, 1605, 1575, 1604, 32, 1575, 1604, 1610, 1608, 1605, 32, 1575,
                  1604, 1581, 1575, 1583, 1610, 32, 1593, 1588, 1585>>,
                   Dict(<<
                     << s_text, Str(<<1571, 1593, 1605, 1575, 1604, 32, 1575, 1604, 1610, 1608,
                       1605, 32, 1575, 1604, 1581, 1575, 1583, 1610, 32, 1593, 1588, 1585, 32,
                       1605, 1606, 32, 1584, 1608, 32, 1575, 1604, 1602, 1593, 1583, 1577,
                       46>>) >>,
                     << s_url, Str(<<104, 116, 116, 112, 115, 58, 47, 47, 104, 109, 111, 109,
                       101, 110, 46, 99, 111, 109, 47, 97, 109, 97, 108, 47, 122, 117, 108,
                       113, 97, 100, 97, 104, 47, 100, 97, 121, 49, 49>>) >> >>) >>,
                \* "أعمال اليوم الثالث والعشرون"
                << <<1571, 1593, 1605, 1575, 1604, 32, 1575, 1604, 1610, 1608, 1605, 32, 1575,
                  1604, 1579, 1575, 1604, 1579, 32, 1608, 1575, 1604, 1593, 1588, 1585, 1608,
                  1606>>,
                   Dict(<<
                     << s_text, Str(<<1571, 1593, 1605, 1575, 1604, 32, 1575, 1604, 1610, 1608,
                       1605, 32, 1575, 1604, 1579, 1575, 1604, 1579, 32, 1608, 1575, 1604,
                       1593, 1588, 1585, 1608, 1606, 32, 1605, 1606, 32, 1584, 1608, 32, 1575,
                       1604, 1602, 1593, 1583, 1577, 46>>) >>,
                     << s_url, Str(<<104, 116, 116, 112, 115, 58, 47, 47, 104, 109, 111, 109,
                       101, 110, 46, 99, 111, 109, 47, 97, 109, 97, 108, 47, 122, 117, 108,
                       113, 97, 100, 97, 104, 47, 100, 97, 121, 50, 51>>) >> >>) >>,
                \* "أعمال الليلة الخامسة عشر"
                << <<1571, 1593, 1605, 1575, 1604, 32, 1575, 1604, 1604, 1610, 1604, 1577, 32,
                  1575, 1604, 1582, 1575, 1605, 1587, 1577, 32, 1593, 1588, 1585>>,
                   Dict(<<
                     << s_text, Str(<<1571, 1593, 1605, 1575, 1604, 32, 1575, 1604, 1604, 1610,
                       1604, 1577, 32, 1575, 1604, 1582, 1575, 1605, 1587, 1577, 32, 1593,
                       1588, 1585, 32, 1605, 1606, 32, 1584, 1608, 32, 1575, 1604, 1602, 1593,
                       1583, 1577, 46>>) >>,
                     << s_url, Str(<<104, 116, 116, 112, 115, 58, 47, 47, 104, 109, 111, 109,
                       101, 110, 46, 99, 111, 109, 47, 97, 109, 97, 108, 47, 122, 117, 108,
                       113, 97, 100, 97, 104, 47, 110, 105, 103, 104, 116, 49, 53>>) >> >>) >>,
                \* "أعمال من الثامن عشر إلى نهاية الشهر"
                << <<1571, 1593, 1605, 1575, 1604, 32, 1605, 1606, 32, 1575, 1604, 1579, 1575,
                  1605, 1606, 32, 1593, 1588, 1585, 32, 1573, 1604, 1609, 32, 1606, 1607, 1575,
                  1610, 1577, 32, 1575, 1604, 1588, 1607, 1585>>,
                   Dict(<<
                     << s_text, Str(<<1571, 1593, 1605, 1575, 1604, 32, 1575, 1604, 1579, 1604,
                       1579, 32, 1575, 1604, 1571, 1582, 1610, 1585, 32, 1605, 1606, 32, 1588,
                       1607, 1585, 32, 1584, 1608, 32, 1575, 1604, 1602, 1593, 1583, 1577,
                       46>>) >>,
                     << s_url, Str(<<104, 116, 116, 112, 115, 58, 47, 47, 104, 109, 111, 109,
                       101, 110, 46, 99, 111, 109, 47, 97, 109, 97, 108, 47, 122, 117, 108,
                       113, 97, 100, 97, 104, 47, 97, 102, 116, 101, 114, 49, 56>>) >> >>) >>
              >>) >>,
           \* "ذو الحجة"
           << <<1584, 1608, 32, 1575, 1604, 1581, 1580, 1577>>,
              Dict(<<
                \* "أعمال اليوم الأول حتى اليوم العاشر"
                << <<1571, 1593, 1605, 1575, 1604, 32, 1575, 1604, 1610, 1608, 1605, 32, 1575,
                  1604, 1571, 1608, 1604, 32, 1581, 1578, 1609, 32, 1575, 1604, 1610, 1608,
                  1605, 32, 1575, 1604, 1593, 1575, 1588, 1585>>,
                   Dict(<<
                     << s_text, Str(<<1571, 1593, 1605, 1575, 1604, 32, 1575, 1604, 1571, 1610,
                       1575, 1605, 32, 1575, 1604, 1593, 1588, 1585, 1577, 32, 1575, 1604,
                       1571, 1608, 1604, 1609, 32, 1605, 1606, 32, 1584, 1608, 32, 1575, 1604,
                       1581, 1580, 1577, 32, 1578, 1578, 1590, 1605, 1606, 32, 1571, 1593,
                       1605, 1575, 1604, 32, 1575, 1604, 1581, 1580, 32, 1608, 1575, 1604,
                       1578, 1602, 1585, 1576, 46>>) >>,
                     << s_url, Str(<<104, 116, 116, 112, 115, 58, 47, 47, 104, 109, 111, 109,
                       101, 110, 46, 99, 111, 109, 47, 97, 109, 97, 108, 47, 122, 117, 108,
                       104, 105, 106, 106, 97, 104, 47, 100, 97, 121, 49, 45, 49, 48>>) >> >>)
                       >>,
                \* "أعمال اليوم الثامن عشر"
                << <<1571, 1593, 1605, 1575, 1604, 32, 1575, 1604, 1610, 1608, 1605, 32, 1575,
                  1604, 1579, 1575, 1605, 1606, 32, 1593, 1588, 1585>>,
                   Dict(<<
                     << s_text, Str(<<1571, 1593, 1605, 1575, 1604, 32, 1575, 1604, 1610, 1608,
                       1605, 32, 1575, 1604, 1579, 1575, 1605, 1606, 32, 1593, 1588, 1585, 32,
                       1605, 1606, 32, 1584, 1608, 32, 1575, 1604, 1581, 1580, 1577, 1548, 32,
                       1610, 1608, 1605, 32, 1575, 1604, 1594, 1583, 1610, 1585, 46>>) >>,
                     << s_url, Str(<<104, 116, 116, 112, 115, 58, 47, 47, 104, 109, 111, 109,
                       101, 110, 46, 99, 111, 109, 47, 97, 109, 97, 108, 47, 122, 117, 108,
                       104, 105, 106, 106, 97, 104, 47, 100, 97, 121, 49, 56>>) >> >>) >>,
                \* "أعمال اليوم الرابع والعشرين"
                << <<1571, 1593, 1605, 1575, 1604, 32, 1575, 1604, 1610, 1608, 1605, 32, 1575,
                  1604, 1585, 1575, 1576, 1593, 32, 1608, 1575, 1604, 1593, 1588, 1585, 1610,
                  1606>>,
                   Dict(<<
                     << s_text, Str(<<1571, 1593, 1605, 1575, 1604, 32, 1575, 1604, 1610, 1608,
                       1605, 32, 1575, 1604, 1585, 1575, 1576, 1593, 32, 1608, 1575, 1604,
                       1593, 1588, 1585, 1610, 1606, 32, 1605, 1606, 32, 1584, 1608, 32, 1575,
                       1604, 1581, 1580, 1577, 46>>) >>,
                     << s_url, Str(<<104, 116, 116, 112, 115, 58, 47, 47, 104, 109, 111, 109,
                       101, 110, 46, 99, 111, 109, 47, 97, 109, 97, 108, 47, 122, 117, 108,
                       104, 105, 106, 106, 97, 104, 47, 100, 97, 121, 50, 52>>) >> >>) >>,
                \* "أعمال اليوم الثلاثون"
                << <<1571, 1593, 1605, 1575, 1604, 32, 1575, 1604, 1610, 1608, 1605, 32, 1575,
                  1604, 1579, 1604, 1575, 1579, 1608, 1606>>,
                   Dict(<<
                     << s_text, Str(<<1571, 1593, 1605, 1575, 1604, 32, 1575, 1604, 1610, 1608,
                       1605, 32, 1575, 1604, 1579, 1604, 1575, 1579, 1608, 1606, 32, 1605,
                       1606, 32, 1584, 1608, 32, 1575, 1604, 1581, 1580, 1577, 46>>) >>,
                     << s_url, Str(<<104, 116, 116, 112, 115, 58, 47, 47, 104, 109, 111, 109,
                       101, 110, 46, 99, 111, 109, 47, 97, 109, 97, 108, 47, 122, 117, 108,
                       104, 105, 106, 106, 97, 104, 47, 100, 97, 121, 51, 48>>) >> >>) >>
              >>) >>
         >>) >>
    >>)

(***************************************************************************)
(* Python operations used by the handlers                                  *)
(***************************************************************************)
\* d.keys(): the keys of a dict in insertion order.
keys(d) == [i \in 1..Len(d.v) |-> d.v[i][1]]

HasKey(d, k) == \E i \in 1..Len(d.v) : d.v[i][1] = k

ValueOf(d, k) == d.v[CHOOSE i \in 1..Len(d.v) : d.v[i][1] = k][2]

\* needle occurs in hay as a contiguous run (str.__contains__).
IsSubstring(needle, hay) ==
    \E i \in 0..(Len(hay) - Len(needle)) :
        \A j \in 1..Len(needle) : hay[i + j] = needle[j]

\* `k in x` for a str k: key test on a dict, element test on a list,
\* substring test on a str, TypeError on a value that is not iterable.
contains(x, k) ==
    CASE x.t = "dict" -> Bool(HasKey(x, k))
      [] x.t = "list" -> Bool(\E i \in 1..Len(x.v) : x.v[i] = Str(k))
      [] x.t = "str" -> Bool(IsSubstring(k, x.v))
      [] OTHER -> Raise("TypeError")

\* `x[k]` for a str k.
getitem(x, k) ==
    CASE x.t = "dict" -> IF HasKey(x, k) THEN ValueOf(x, k) ELSE Raise("KeyError")
      [] OTHER -> Raise("TypeError")

\* A lookup written with setdefault: a missing key is inserted with the
\* default.
get_setdefault(x, k, default) ==
    IF x.t = "dict"
    THEN IF HasKey(x, k)
         THEN [value |-> ValueOf(x, k), self |-> x]
         ELSE [value |-> default, self |-> Dict(Append(x.v, <<k, default>>))]
    ELSE [value |-> Raise("AttributeError"), self |-> x]

\* `x.get(k, default)`: the value returned and the receiver afterwards.
\* dict.get never inserts the default.
get(x, k, default) ==
    IF x.t = "dict"
    THEN [value |-> IF HasKey(x, k) THEN ValueOf(x, k) ELSE default, self |-> x]
    ELSE [value |-> Raise("AttributeError"), self |-> x]

\* bool(x)
truthy(x) ==
    CASE x.t = "none" -> FALSE
      [] x.t = "bool" -> x.v[1]
      [] x.t = "int" -> x.v[1] # 0
      [] OTHER -> Len(x.v) > 0

\* s.split(sep) for a one-character separator: never an empty list.
RECURSIVE split(_, _)
split(s, sep) ==
    IF \A i \in 1..Len(s) : s[i] # sep
    THEN <<s>>
    ELSE LET p == CHOOSE i \in 1..Len(s) :
                      s[i] = sep /\ \A j \in 1..(i - 1) : s[j] # sep
         IN  <<SubSeq(s, 1, p - 1)>> \o split(SubSeq(s, p + 1, Len(s)), sep)

\* Number of bytes of one code point in UTF-8.
Utf8Bytes(c) ==
    IF c < 128 THEN 1 ELSE IF c < 2048 THEN 2 ELSE IF c < 65536 THEN 3 ELSE 4

\* len(s.encode("utf-8"))
RECURSIVE Utf8Len(_)
Utf8Len(s) == IF s = <<>> THEN 0 ELSE Utf8Bytes(Head(s)) + Utf8Len(Tail(s))

(***************************************************************************)
(* Outbound Bot API calls                                                  *)
(***************************************************************************)
\* The JSON body posted to /sendMessage.
send_message(chat_id, text, reply_markup) ==
    [method |-> "sendMessage", chat_id |-> chat_id, message_id |-> None,
     text |-> text, reply_markup |-> reply_markup]

\* An edit that posts a new message instead of editing the original one.
edit_message_as_new(chat_id, message_id, text, reply_markup) ==
    [method |-> "sendMessage", chat_id |-> chat_id, message_id |-> None,
     text |-> text, reply_markup |-> reply_markup]

\* The JSON body posted to /editMessageText.
edit_message(chat_id, message_id, text, reply_markup) ==
    [method |-> "editMessageText", chat_id |-> chat_id, message_id |-> message_id,
     text |-> text, reply_markup |-> reply_markup]

\* A keyboard whose tokens lack the separator between prefix and key.
build_keyboard_nosep(options, prefix) ==
    [t |-> "markup",
     v |-> [i \in 1..Len(options.v) |->
              << [text |-> keys(options)[i],
                  callback_data |-> prefix \o keys(options)[i]] >>]]

\* {"inline_keyboard": rows}: one row with one button per key of options, in
\* the order of options.keys(); the token is f"{prefix}|{key}".
build_keyboard(options, prefix) ==
    [t |-> "markup",
     v |-> [i \in 1..Len(options.v) |->
              << [text |-> keys(options)[i],
                  callback_data |-> prefix \o s_pipe \o keys(options)[i]] >>]]

(***************************************************************************)
(* Handlers.  A handler runs without suspension up to its single awaited   *)
(* POST, so its result is the exception it raised (exc, "" for none), the  *)
(* calls it issues (ops) and CONTENT as it leaves it (content).            *)
(***************************************************************************)
Raised(name, content) == [exc |-> name, ops |-> <<>>, content |-> content]
Issued(ops, content) == [exc |-> "", ops |-> ops, content |-> content]

\* d[k] = v on a dict that has the key k.
setitem(d, k, val) ==
    Dict([i \in 1..Len(d.v) |-> IF d.v[i][1] = k THEN <<k, val>> ELSE d.v[i]])

\* The object d[k] after a method call left it as inner; a default that was
\* returned for a missing key is a temporary and is not stored.
WriteBack(d, k, inner) == IF HasKey(d, k) THEN setitem(d, k, inner) ELSE d

\* A handler that answers every text with an empty keyboard.
handle_message_nomenu(message, content) ==
    LET chat == getitem(message, s_chat)
        chat_id == getitem(chat, s_id)
        reply_markup == build_keyboard(EmptyDict, s_cat)
    IN  IF IsRaise(chat) THEN Raised(chat.v[1], content)
        ELSE IF IsRaise(chat_id) THEN Raised(chat_id.v[1], content)
        ELSE Issued(<<send_message(chat_id, s_choose_category, reply_markup)>>, content)

handle_message(message, content) ==
    LET chat == getitem(message, s_chat)
        chat_id == getitem(chat, s_id)
        reply_markup == build_keyboard(content, s_cat)
    IN  IF IsRaise(chat) THEN Raised(chat.v[1], content)
        ELSE IF IsRaise(chat_id) THEN Raised(chat_id.v[1], content)
        ELSE Issued(<<send_message(chat_id, s_choose_category, reply_markup)>>, content)

\* The three recognised branches of handle_callback_query, given the parts
\* of the token.
cat_branch(chat_id, message_id, parts, content) ==
    LET category == parts[2]
        g == get(content, category, EmptyDict)
        sub_options == g.value
        text == s_choose_sub \o category \o s_colon
        reply_markup == build_keyboard(sub_options, s_sub \o s_pipe \o category)
    IN  Issued(<<edit_message(chat_id, message_id, text, reply_markup)>>, g.self)

sub_branch(chat_id, message_id, parts, content) ==
    LET category == parts[2]
        subcategory == parts[3]
        g1 == get(content, category, EmptyDict)
        g2 == get(g1.value, subcategory, EmptyDict)
        items == g2.value
        text == s_choose_item \o subcategory \o s_colon
        reply_markup ==
            build_keyboard(items, s_item \o s_pipe \o category \o s_pipe \o subcategory)
    IN  Issued(<<edit_message(chat_id, message_id, text, reply_markup)>>,
               WriteBack(g1.self, category, g2.self))

item_branch(chat_id, message_id, parts, content) ==
    LET category == parts[2]
        subcategory == parts[3]
        item_name == parts[4]
        g1 == get(content, category, EmptyDict)
        g2 == get(g1.value, subcategory, EmptyDict)
        g3 == get(g2.value, item_name, EmptyDict)
        entry == g3.value
        text == get(entry, s_text, Str(<<>>)).value
        url == get(entry, s_url, None).value
        full == IF truthy(url) THEN text.v \o s_link \o url.v ELSE text.v
    IN  Issued(<<edit_message(chat_id, message_id, full, None)>>,
               WriteBack(g1.self, category,
                         WriteBack(g2.self, subcategory, g3.self)))

\* An else branch that answers an unrecognised callback with a notice.
ignore_callback_notice(chat_id, message_id, content) ==
    Issued(<<edit_message(chat_id, message_id, s_choose_category, None)>>, content)

\* The else branch: an unrecognised callback is ignored.
ignore_callback(chat_id, message_id, content) == Issued(<<>>, content)

handle_callback_query(callback_query, content) ==
    LET data == get(callback_query, s_data, Str(<<>>)).value
        message == get(callback_query, s_message, None).value
        chat == getitem(message, s_chat)
        chat_id == getitem(chat, s_id)
        message_id == getitem(message, s_message_id)
        parts == split(data.v, s_pipe[1])
        kind == parts[1]
    IN  IF IsRaise(data) THEN Raised(data.v[1], content)
        ELSE IF IsRaise(chat) THEN Raised(chat.v[1], content)
        ELSE IF IsRaise(chat_id) THEN Raised(chat_id.v[1], content)
        ELSE IF IsRaise(message_id) THEN Raised(message_id.v[1], content)
        ELSE IF data.t # "str" THEN Raised("AttributeError", content)
        ELSE IF Len(parts) = 0 THEN Issued(<<>>, content)
        ELSE IF kind = s_cat /\ Len(parts) = 2
             THEN cat_branch(chat_id, message_id, parts, content)
        ELSE IF kind = s_sub /\ Len(parts) = 3
             THEN sub_branch(chat_id, message_id, parts, content)
        ELSE IF kind = s_item /\ Len(parts) = 4
             THEN item_branch(chat_id, message_id, parts, content)
        ELSE ignore_callback(chat_id, message_id, content)

\* The body of telegram_webhook after request.json() has succeeded.
dispatch(update, content) ==
    LET has_message == contains(update, s_message)
        has_callback == contains(update, s_callback_query)
        message == getitem(update, s_message)
        text == get(message, s_text, None).value
        callback_query == getitem(update, s_callback_query)
    IN  IF IsRaise(has_message) THEN Raised(has_message.v[1], content)
        ELSE IF truthy(has_message)
             THEN IF IsRaise(message) THEN Raised(message.v[1], content)
                  ELSE IF IsRaise(text) THEN Raised(text.v[1], content)
                  ELSE IF truthy(text) THEN handle_message(message, content)
                  ELSE Issued(<<>>, content)
        ELSE IF truthy(has_callback)
             THEN IF IsRaise(callback_query) THEN Raised(callback_query.v[1], content)
                  ELSE handle_callback_query(callback_query, content)
        ELSE Issued(<<>>, content)

(***************************************************************************)
(* Requests                                                                *)
(***************************************************************************)
\* A request body that request.json() cannot parse.
InvalidJson == [t |-> "invalid", v |-> <<>>]

MessageBody(chat_id, text) ==
    Dict(<< <<s_chat, Dict(<< <<s_id, Num(chat_id)>> >>)>>, <<s_text, Str(text)>> >>)

MessageUpdate(chat_id, text) == Dict(<< <<s_message, MessageBody(chat_id, text)>> >>)

OriginMessage(chat_id, message_id) ==
    Dict(<< <<s_message_id, message_id>>, <<s_chat, Dict(<< <<s_id, chat_id>> >>)>> >>)

CallbackUpdate(chat_id, message_id, data) ==
    Dict(<< <<s_callback_query,
              Dict(<< <<s_data, Str(data)>>,
                      <<s_message, OriginMessage(chat_id, message_id)>> >>)>> >>)

(***************************************************************************)
(* Inputs                                                                  *)
(***************************************************************************)
\* Invocations of telegram_webhook in progress at a time.
MaxInFlight == 2
\* Ids that the Bot API gives to the messages it sends.
MaxMessageId == 2
MessageIds == 1..MaxMessageId

\* "hi"
s_hi == <<104, 105>>
\* "/start"
s_start == <<47, 115, 116, 97, 114, 116>>
\* "unknown"
s_unknown == <<117, 110, 107, 110, 111, 119, 110>>
\* "x"
s_x == <<120>>
\* "back|main"
s_back_main == <<98, 97, 99, 107, 124, 109, 97, 105, 110>>
\* "it|dua|/content/dua/item1"
s_it_dua == <<105, 116, 124, 100, 117, 97, 124, 47, 99, 111, 110, 116, 101, 110, 116, 47, 100, 117, 97, 47, 105, 116, 101, 109, 49>>
\* "update_id"
s_update_id == <<117, 112, 100, 97, 116, 101, 95, 105, 100>>

\* Names taken from the catalog: the first category, its first subcategory
\* and that subcategory's first item.
Cat1 == keys(_build_content)[1]
Sub1 == keys(ValueOf(_build_content, Cat1))[1]
Item1 == keys(ValueOf(ValueOf(_build_content, Cat1), Sub1))[1]

Join2(a, b) == a \o s_pipe \o b
Join3(a, b, c) == a \o s_pipe \o b \o s_pipe \o c
Join4(a, b, c, d) == a \o s_pipe \o b \o s_pipe \o c \o s_pipe \o d

\* Tokens in the grammar of handle_callback_query that name catalog nodes.
KnownTokens ==
    << Join2(s_cat, Cat1), Join3(s_sub, Cat1, Sub1), Join4(s_item, Cat1, Sub1, Item1) >>

\* Tokens with an unknown kind or the wrong number of parts.
UnrecognizedTokens ==
    << <<>>, s_cat, s_x, s_back_main, s_it_dua,
       Join3(s_cat, Cat1, Sub1), Join2(s_sub, Sub1), Join3(s_item, Cat1, Sub1),
       Join4(s_item, Cat1, Sub1, Item1) \o s_pipe \o s_x >>

\* Tokens of a recognised kind and arity that name no catalog node.
UnknownNameTokens ==
    << Join2(s_cat, <<>>), Join2(s_cat, s_unknown),
       Join3(s_sub, Cat1, s_unknown), Join3(s_sub, s_unknown, Sub1),
       Join4(s_item, Cat1, Sub1, s_unknown), Join4(s_item, s_unknown, Sub1, Item1) >>

TestTokens == KnownTokens \o UnrecognizedTokens \o UnknownNameTokens

\* JSON documents that are not an object.
NonObjectUpdates ==
    << Num(5), None, Bool(TRUE), Str(s_hi), Str(s_message), List(<<>>),
       List(<<Str(s_message)>>) >>

\* Objects that carry neither a message nor a callback_query.
OtherUpdates == << EmptyDict, Dict(<< <<s_update_id, Num(1)>> >>) >>

\* Updates with a "message" key.
MessageUpdates ==
    << MessageUpdate(1, s_hi), MessageUpdate(2, s_start), MessageUpdate(1, <<>>),
       Dict(<< <<s_message, None>> >>),
       Dict(<< <<s_message, Str(s_hi)>> >>),
       Dict(<< <<s_message, EmptyDict>> >>),
       Dict(<< <<s_message, Dict(<< <<s_chat, Dict(<< <<s_id, Num(1)>> >>)>> >>)>> >>),
       Dict(<< <<s_message, Dict(<< <<s_chat, Dict(<< <<s_id, Num(1)>> >>)>>,
                                    <<s_text, None>> >>)>> >>),
       Dict(<< <<s_message, Dict(<< <<s_text, Str(s_hi)>> >>)>> >>),
       Dict(<< <<s_message, Dict(<< <<s_chat, EmptyDict>>, <<s_text, Str(s_hi)>> >>)>> >>),
       Dict(<< <<s_message, Dict(<< <<s_chat, Num(5)>>, <<s_text, Str(s_hi)>> >>)>> >>),
       Dict(<< <<s_message, MessageBody(1, s_hi)>>,
               <<s_callback_query,
                 Dict(<< <<s_data, Str(Join2(s_cat, Cat1))>>,
                         <<s_message, OriginMessage(Num(1), Num(1))>> >>)>> >>) >>

\* Callback updates whose payload lacks fields or has them with another type.
Callback(fields) == Dict(<< <<s_callback_query, fields>> >>)

MalformedCallbacks ==
    << Callback(None), Callback(EmptyDict), Callback(Str(s_hi)),
       Callback(Dict(<< <<s_data, Str(Join2(s_cat, Cat1))>> >>)),
       Callback(Dict(<< <<s_data, Str(Join2(s_cat, Cat1))>>, <<s_message, None>> >>)),
       Callback(Dict(<< <<s_data, Str(Join2(s_cat, Cat1))>>, <<s_message, EmptyDict>> >>)),
       Callback(Dict(<< <<s_data, Str(Join2(s_cat, Cat1))>>,
                        <<s_message,
                          Dict(<< <<s_chat, Dict(<< <<s_id, Num(1)>> >>)>> >>)>> >>)),
       Callback(Dict(<< <<s_data, Str(Join2(s_cat, Cat1))>>,
                        <<s_message, Dict(<< <<s_message_id, Num(1)>> >>)>> >>)),
       Callback(Dict(<< <<s_data, Str(Join2(s_cat, Cat1))>>,
                        <<s_message,
                          Dict(<< <<s_message_id, Num(1)>>, <<s_chat, EmptyDict>> >>)>> >>)),
       Callback(Dict(<< <<s_data, Str(s_x)>>, <<s_message, EmptyDict>> >>)),
       Callback(Dict(<< <<s_message, OriginMessage(Num(1), Num(1))>> >>)),
       Callback(Dict(<< <<s_data, None>>, <<s_message, OriginMessage(Num(1), Num(1))>> >>)),
       Callback(Dict(<< <<s_data, Num(5)>>,
                        <<s_message, OriginMessage(Num(1), Num(1))>> >>)) >>

\* Well-formed callbacks carrying each test token.
TokenCallbacks ==
    [i \in 1..Len(TestTokens) |-> CallbackUpdate(Num(1), Num(1), TestTokens[i])]

\* Requests without a callback_query: bodies that are not JSON, JSON that
\* is not an object, objects without an event, and message events.
MessageRequests ==
    <<InvalidJson>> \o NonObjectUpdates \o OtherUpdates \o MessageUpdates

\* Callback events of every kind.
CallbackRequests == <<InvalidJson>> \o MalformedCallbacks \o TokenCallbacks

\* The traffic of two users: each sends a text, and buttons are pressed on
\* messages 1 and 2 of chat 1 and on message 2 of chat 2.
UserRequests ==
    << InvalidJson, MessageUpdate(1, s_hi), MessageUpdate(2, s_start),
       CallbackUpdate(Num(1), Num(1), KnownTokens[1]),
       CallbackUpdate(Num(1), Num(1), KnownTokens[2]),
       CallbackUpdate(Num(1), Num(1), KnownTokens[3]),
       CallbackUpdate(Num(1), Num(1), s_back_main),
       CallbackUpdate(Num(1), Num(1), Join2(s_cat, s_unknown)),
       CallbackUpdate(Num(1), Num(2), KnownTokens[1]),
       CallbackUpdate(Num(2), Num(2), KnownTokens[1]) >>

\* Requests of every kind together: a body that is not JSON, malformed
\* updates, message events with and without text, and callback events with
\* known tokens, unknown names and unrecognised tokens.
MixedRequests ==
    << InvalidJson, Num(5), EmptyDict,
       MessageUpdate(1, s_hi), MessageUpdate(1, <<>>),
       Dict(<< <<s_message, None>> >>),
       Callback(EmptyDict),
       Callback(Dict(<< <<s_data, Str(Join2(s_cat, Cat1))>> >>)) >>
    \o [i \in 1..Len(KnownTokens) |-> CallbackUpdate(Num(1), Num(1), KnownTokens[i])]
    \o [i \in 1..Len(UnknownNameTokens) |->
            CallbackUpdate(Num(1), Num(1), UnknownNameTokens[i])]
    \o << CallbackUpdate(Num(1), Num(1), s_x),
          CallbackUpdate(Num(1), Num(1), s_back_main) >>

(***************************************************************************)
(* State.  telegram_webhook is an async route: an invocation is suspended  *)
(* at `await request.json()` and at `await client.post(...)`, and other    *)
(* invocations run on the event loop meanwhile.  The invocations in        *)
(* progress, each with its locals, form a bag; they share only CONTENT.    *)
(***************************************************************************)
VARIABLES
    CONTENT,    \* the module-level catalog dictionary (AsBuilt while it
                \* equals the value built at import)
    inv,        \* the bag of invocations of telegram_webhook in progress:
                \*   pc        position of the coroutine
                \*   request   its request body
                \*   net       what its awaited POST did ("none" before it ends)
                \*   outbound  the Bot API calls it has issued, each with its state
                \*   response  its HTTP response
    shown,      \* the bot message the user has on screen
    probe       \* one remembered invocation that has ended (history
                \* variable); quiet tells that no other invocation was in
                \* progress when it ended

vars == <<CONTENT, inv, shown, probe>>

NoResponse == [status |-> 0, body |-> <<>>]
\* {"status": "ok"}
OkResponse == [status |-> 200, body |-> <<"status", "ok">>]
\* HTTPException(status_code=400, detail="Invalid JSON")
BadRequest == [status |-> 400, body |-> <<"detail", "Invalid JSON">>]
\* an exception that escapes the route
ServerError == [status |-> 500, body |-> <<>>]

\* The state names the value that _build_content() returned at import
\* instead of repeating it; any other value of CONTENT is held in full.
AsBuilt == [t |-> "asbuilt", v |-> <<>>]
Catalog == IF CONTENT = AsBuilt THEN _build_content ELSE CONTENT
Held(content) == IF content = _build_content THEN AsBuilt ELSE content

\* An invocation that has just started on the request req.
Started(req) ==
    [pc |-> "received", request |-> req, net |-> "none", outbound |-> <<>>,
     response |-> NoResponse]

\* The invocations in progress.
InProgress == BagToSet(inv)

\* The invocation r goes on and becomes r2.
Resume(r, r2) == inv' = (inv (-) SetToBag({r})) (+) SetToBag({r2})

NoMessage == [chat_id |-> None, message_id |-> None, reply_markup |-> None]
NoProbe ==
    [request |-> None, net |-> "", outbound |-> <<>>, response |-> NoResponse,
     quiet |-> FALSE]

Init ==
    /\ CONTENT = AsBuilt
    /\ inv = EmptyBag
    /\ shown = NoMessage
    /\ probe = NoProbe

(***************************************************************************)
(* Actions                                                                 *)
(***************************************************************************)
\* A request arrives and an invocation of telegram_webhook starts, whatever
\* the other invocations are doing.
Receive(req) ==
    /\ BagCardinality(inv) < MaxInFlight
    /\ inv' = inv (+) SetToBag({Started(req)})
    /\ UNCHANGED <<CONTENT, shown, probe>>

\* The requests of one family arrive.
ReceiveUser == \E i \in 1..Len(UserRequests) : Receive(UserRequests[i])
ReceiveMessage == \E i \in 1..Len(MessageRequests) : Receive(MessageRequests[i])
ReceiveCallback == \E i \in 1..Len(CallbackRequests) : Receive(CallbackRequests[i])
ReceiveMixed == \E i \in 1..Len(MixedRequests) : Receive(MixedRequests[i])

\* request.json() raises: HTTPException(400).
RejectInvalidJson ==
    \E r \in InProgress :
        /\ r.pc = "received"
        /\ r.request = InvalidJson
        /\ Resume(r, [r EXCEPT !.response = BadRequest, !.pc = "done"])
        /\ UNCHANGED <<CONTENT, shown, probe>>

\* telegram_webhook from the parsed update up to the awaited POST; without
\* a POST it runs on to its return statement, as nothing else is awaited.
HandleUpdate ==
    \E r \in InProgress :
        /\ r.pc = "received"
        /\ r.request # InvalidJson
        /\ LET d == dispatch(r.request, Catalog)
           IN  /\ CONTENT' = Held(d.content)
               /\ Resume(r,
                     IF d.exc # ""
                     THEN [r EXCEPT !.response = ServerError, !.pc = "done"]
                     ELSE IF d.ops = <<>>
                     THEN [r EXCEPT !.pc = "handled"]
                     ELSE [r EXCEPT
                             !.outbound =
                                 [i \in 1..Len(d.ops) |->
                                     [call |-> d.ops[i], state |-> "inflight"]],
                             !.pc = "awaiting"])
        /\ UNCHANGED <<shown, probe>>

\* What the user sees once the Bot API has carried out a call: a sent
\* message appears with a fresh id, an edit replaces the keyboard of the
\* message it addresses.
Delivered(call, m) ==
    IF call.method = "sendMessage"
    THEN [chat_id |-> call.chat_id, message_id |-> Num(m),
          reply_markup |-> call.reply_markup]
    ELSE IF shown.chat_id = call.chat_id /\ shown.message_id = call.message_id
              /\ shown # NoMessage
         THEN [shown EXCEPT !.reply_markup = call.reply_markup]
         ELSE shown

\* client.post returns: the Bot API has answered (with any HTTP status, as
\* raise_for_status is not called).
PostReturns ==
    \E r \in InProgress :
        /\ r.pc = "awaiting"
        /\ Resume(r, [r EXCEPT
                        !.net = "returns",
                        !.outbound[Len(r.outbound)].state = "returned",
                        !.pc = "handled"])
        /\ \E m \in MessageIds :
              shown' = Delivered(r.outbound[Len(r.outbound)].call, m)
        /\ UNCHANGED <<CONTENT, probe>>

\* client.post raises (timeout, connection error); the exception escapes
\* the route.
PostRaises ==
    \E r \in InProgress :
        /\ r.pc = "awaiting"
        /\ Resume(r, [r EXCEPT
                        !.net = "raises",
                        !.outbound[Len(r.outbound)].state = "raised",
                        !.response = ServerError,
                        !.pc = "done"])
        /\ UNCHANGED <<CONTENT, shown, probe>>

\* An acknowledgment that does not wait for the POST (the call scheduled
\* as a task instead of awaited).
Acknowledge_early ==
    \E r \in InProgress :
        /\ r.pc \in {"awaiting", "handled"}
        /\ Resume(r, [r EXCEPT !.response = OkResponse, !.pc = "done"])
        /\ UNCHANGED <<CONTENT, shown, probe>>

\* return {"status": "ok"}
Acknowledge ==
    \E r \in InProgress :
        /\ r.pc = "handled"
        /\ Resume(r, [r EXCEPT !.response = OkResponse, !.pc = "done"])
        /\ UNCHANGED <<CONTENT, shown, probe>>

\* The response has been sent; the invocation and its locals are gone.
Finish ==
    \E r \in InProgress :
        /\ r.pc = "done"
        /\ inv' = inv (-) SetToBag({r})
        /\ UNCHANGED <<CONTENT, shown, probe>>

\* The traffic of the users, overlapping in any way.
Next ==
    \/ ReceiveUser
    \/ RejectInvalidJson
    \/ HandleUpdate
    \/ PostReturns
    \/ PostRaises
    \/ Acknowledge
    \/ Finish

Spec == Init /\ [][Next]_vars

(***************************************************************************)
(* The same program under the other families of requests.                  *)
(***************************************************************************)
NextMessages ==
    \/ ReceiveMessage
    \/ RejectInvalidJson
    \/ HandleUpdate
    \/ PostReturns
    \/ PostRaises
    \/ Acknowledge
    \/ Finish

SpecMessages == Init /\ [][NextMessages]_vars

NextCallbacks ==
    \/ ReceiveCallback
    \/ RejectInvalidJson
    \/ HandleUpdate
    \/ PostReturns
    \/ PostRaises
    \/ Acknowledge
    \/ Finish

SpecCallbacks == Init /\ [][NextCallbacks]_vars

NextMixed ==
    \/ ReceiveMixed
    \/ RejectInvalidJson
    \/ HandleUpdate
    \/ PostReturns
    \/ PostRaises
    \/ Acknowledge
    \/ Finish

SpecMixed == Init /\ [][NextMixed]_vars

(***************************************************************************)
(* A specification that remembers one finished invocation, to compare it  *)
(* with later invocations on the same update.                              *)
(***************************************************************************)
HistRequests ==
    << InvalidJson, Num(5), MessageUpdate(1, s_hi),
       CallbackUpdate(Num(1), Num(1), Join2(s_cat, Cat1)),
       CallbackUpdate(Num(1), Num(1), Join3(s_sub, Cat1, Sub1)),
       CallbackUpdate(Num(1), Num(1), Join2(s_cat, s_unknown)),
       CallbackUpdate(Num(1), Num(1), s_back_main) >>

ReceiveHist == \E i \in 1..Len(HistRequests) : Receive(HistRequests[i])

\* An invocation ends as in Finish and is remembered.
Record ==
    \E r \in InProgress :
        /\ r.pc = "done"
        /\ probe = NoProbe
        /\ probe' = [request |-> r.request, net |-> r.net,
                     outbound |-> r.outbound, response |-> r.response,
                     quiet |-> BagCardinality(inv) = 1]
        /\ inv' = inv (-) SetToBag({r})
        /\ UNCHANGED <<CONTENT, shown>>

NextHist ==
    \/ ReceiveHist
    \/ RejectInvalidJson
    \/ HandleUpdate
    \/ PostReturns
    \/ PostRaises
    \/ Acknowledge
    \/ Record
    \/ Finish

SpecHist == Init /\ [][NextHist]_vars

(***************************************************************************)
(* Vocabulary of the properties.  r is an invocation in progress.          *)
(***************************************************************************)
\* HandleUpdate has run for the invocation.
Dispatched(r) == r.pc \in {"awaiting", "handled", "done"}

\* The Bot API calls issued so far by the invocation.
Calls(r) == [i \in 1..Len(r.outbound) |-> r.outbound[i].call]

\* The update is routed to handle_callback_query.
IsCallbackEvent(u) ==
    /\ u.t = "dict"
    /\ ~HasKey(u, s_message)
    /\ HasKey(u, s_callback_query)

\* The callback payload has every field the handler reads, with its type.
WellFormedCallback(cq) ==
    /\ cq.t = "dict"
    /\ HasKey(cq, s_data)
    /\ ValueOf(cq, s_data).t = "str"
    /\ HasKey(cq, s_message)
    /\ ValueOf(cq, s_message).t = "dict"
    /\ HasKey(ValueOf(cq, s_message), s_message_id)
    /\ HasKey(ValueOf(cq, s_message), s_chat)
    /\ ValueOf(ValueOf(cq, s_message), s_chat).t = "dict"
    /\ HasKey(ValueOf(ValueOf(cq, s_message), s_chat), s_id)

\* The request of the invocation is a well-formed callback event.
IsWellFormedCallback(r) ==
    /\ IsCallbackEvent(r.request)
    /\ WellFormedCallback(ValueOf(r.request, s_callback_query))

\* Its fields.
Token(r) == ValueOf(ValueOf(r.request, s_callback_query), s_data).v
Origin(r) == ValueOf(ValueOf(r.request, s_callback_query), s_message)
OriginChatId(r) == ValueOf(ValueOf(Origin(r), s_chat), s_id)
OriginMessageId(r) == ValueOf(Origin(r), s_message_id)

\* The token has a kind and a number of parts that the router accepts.
HasKnownShape(parts) ==
    \/ parts[1] = s_cat /\ Len(parts) = 2
    \/ parts[1] = s_sub /\ Len(parts) = 3
    \/ parts[1] = s_item /\ Len(parts) = 4

\* The section (category, or category and subcategory) that the token
\* names is in the catalog.
NamesKnownSection(parts) ==
    /\ HasKey(_build_content, parts[2])
    /\ Len(parts) >= 3 => HasKey(ValueOf(_build_content, parts[2]), parts[3])

\* The token names a node of the catalog.
NamesCatalogNode(parts) ==
    /\ HasKnownShape(parts)
    /\ NamesKnownSection(parts)
    /\ Len(parts) = 4 =>
          HasKey(ValueOf(ValueOf(_build_content, parts[2]), parts[3]), parts[4])

(***************************************************************************)
(* C1.  Every request ends in one of two ways: a body that is not JSON     *)
(* ends with status 400, and a body that is JSON ends with the             *)
(* acknowledgment {"status": "ok"} whatever its shape.  (Stated for        *)
(* invocations whose POST, if any, did not raise.)                         *)
(***************************************************************************)
C1_AckOrBadRequest ==
    \A r \in InProgress :
        (r.pc = "done" /\ r.net # "raises") =>
            IF r.request = InvalidJson
            THEN r.response = BadRequest
            ELSE r.response = OkResponse

(***************************************************************************)
(* C2.  A callback event whose payload lacks expected fields, or whose     *)
(* token is not a navigation token of the catalog (unknown kind, wrong     *)
(* number of parts, or a name that is not in the catalog), issues no       *)
(* sendMessage and no editMessageText.                                     *)
(***************************************************************************)
C2_MalformedIsSilent ==
    \A r \in InProgress :
        (Dispatched(r) /\ IsCallbackEvent(r.request)
            /\ (IsWellFormedCallback(r) =>
                    ~NamesCatalogNode(split(Token(r), s_pipe[1]))))
        => r.outbound = <<>>

\* C2 as amended: a callback event whose payload lacks expected fields, or
\* whose token has an unknown kind or the wrong number of parts, issues no
\* sendMessage and no editMessageText; a token of a known kind and arity
\* that names no catalog node is answered with one editMessageText.
C2_UnrecognizedIsSilent ==
    \A r \in InProgress :
        /\ (Dispatched(r) /\ IsCallbackEvent(r.request)
                /\ (IsWellFormedCallback(r) =>
                        ~HasKnownShape(split(Token(r), s_pipe[1]))))
           => r.outbound = <<>>
        /\ (Dispatched(r) /\ IsWellFormedCallback(r)
                /\ HasKnownShape(split(Token(r), s_pipe[1]))
                /\ ~NamesCatalogNode(split(Token(r), s_pipe[1])))
           => /\ Len(r.outbound) = 1
              /\ r.outbound[1].call.method = "editMessageText"

\* A well-formed callback carrying back|main has been handled and
\* acknowledged without any call, while the POST of another invocation
\* is still in flight.
C2_Witness ==
    \E r, t \in InProgress :
        /\ r.pc = "done"
        /\ IsWellFormedCallback(r)
        /\ Token(r) = s_back_main
        /\ r.outbound = <<>>
        /\ r.response = OkResponse
        /\ t # r
        /\ t.pc = "awaiting"

(***************************************************************************)
(* C3.  Every callback token on a button of a view the bot renders is at   *)
(* most 64 bytes long in UTF-8.                                            *)
(***************************************************************************)
C3_TokensFitLimit ==
    \A r \in InProgress :
        \A i \in 1..Len(r.outbound) :
            LET m == r.outbound[i].call.reply_markup
            IN  m.t = "markup" =>
                    \A row \in 1..Len(m.v) : \A b \in 1..Len(m.v[row]) :
                        Utf8Len(m.v[row][b].callback_data) <= 64

\* The keyboard of the root menu: one row per category, in catalog order,
\* with the token cat|<category>.
IsRootMenu(m) ==
    /\ m.t = "markup"
    /\ Len(m.v) = Len(_build_content.v)
    /\ \A i \in 1..Len(m.v) :
          m.v[i] = << [text |-> _build_content.v[i][1],
                       callback_data |-> s_cat \o s_pipe \o _build_content.v[i][1]] >>

\* The buttons of a keyboard, row after row.
RECURSIVE Flatten(_)
Flatten(rows) == IF rows = <<>> THEN <<>> ELSE Head(rows) \o Flatten(Tail(rows))
Buttons(m) == IF m.t = "markup" THEN Flatten(m.v) ELSE <<>>
Labels(m) == [i \in 1..Len(Buttons(m)) |-> Buttons(m)[i].text]

ParentToken(parts) ==
    IF Len(parts) = 2 THEN s_back_main
    ELSE IF Len(parts) = 3 THEN s_cat \o s_pipe \o parts[2]
    ELSE s_sub \o s_pipe \o parts[2] \o s_pipe \o parts[3]

C5_BackNavigation ==
    \A r \in InProgress :
        /\ (Dispatched(r) /\ IsWellFormedCallback(r) /\ Token(r) = s_back_main) =>
              /\ Len(r.outbound) = 1
              /\ r.outbound[1].call.method = "editMessageText"
              /\ r.outbound[1].call.chat_id = OriginChatId(r)
              /\ r.outbound[1].call.message_id = OriginMessageId(r)
              /\ IsRootMenu(r.outbound[1].call.reply_markup)
        /\ (Dispatched(r) /\ IsWellFormedCallback(r)
                /\ NamesCatalogNode(split(Token(r), s_pipe[1]))) =>
              /\ Len(r.outbound) = 1
              /\ \E i \in 1..Len(Buttons(r.outbound[1].call.reply_markup)) :
                    Buttons(r.outbound[1].call.reply_markup)[i].callback_data
                        \in {s_back_main, ParentToken(split(Token(r), s_pipe[1]))}

(***************************************************************************)
(* C6.  An item-detail token whose category or subcategory is not in the   *)
(* catalog makes the router emit a non-empty "section not found" message,  *)
(* and no content text of any item.                                        *)
(***************************************************************************)
\* text contains the content text of some item of the catalog.
HasItemText(text) ==
    \E c \in 1..Len(_build_content.v) :
        \E sc \in 1..Len(_build_content.v[c][2].v) :
            \E it \in 1..Len(_build_content.v[c][2].v[sc][2].v) :
                IsSubstring(ValueOf(_build_content.v[c][2].v[sc][2].v[it][2], s_text).v,
                            text)

C6_SectionNotFound ==
    \A r \in InProgress :
        (Dispatched(r) /\ IsWellFormedCallback(r)
            /\ LET parts == split(Token(r), s_pipe[1])
               IN  parts[1] = s_item /\ Len(parts) = 4 /\ ~NamesKnownSection(parts))
        => /\ Len(r.outbound) = 1
           /\ r.outbound[1].call.text # <<>>
           /\ ~HasItemText(r.outbound[1].call.text)

(***************************************************************************)
(* C7.  The acknowledgment comes after handling has completed: when the    *)
(* response {"status": "ok"} of an invocation exists every call it issued  *)
(* for its update has finished, and it issues no call after it.            *)
(***************************************************************************)
C7_AckAfterCalls ==
    [][/\ \A r \in BagToSet(inv') :
             r.response = OkResponse =>
                 /\ \A i \in 1..Len(r.outbound) : r.outbound[i].state = "returned"
                 /\ \/ r \in InProgress
                    \/ \E q \in InProgress :
                          /\ q.response = NoResponse
                          /\ r = [q EXCEPT !.response = OkResponse, !.pc = "done"]
       /\ \A q \in InProgress :
             q.response = OkResponse =>
                 \/ CopiesIn(q, inv') >= CopiesIn(q, inv)
                 \/ inv' = inv (-) SetToBag({q})]_vars

\* An invocation whose one call has returned is acknowledged while the
\* POST of another invocation is still in flight.
C7_Witness ==
    \E r, t \in InProgress :
        /\ r.pc = "done"
        /\ r.response = OkResponse
        /\ Len(r.outbound) = 1
        /\ r.outbound[1].state = "returned"
        /\ t # r
        /\ t.pc = "awaiting"

(***************************************************************************)
(* C8.  The catalog is read-only: after any sequence of invocations        *)
(* (message events, callback events with known or unknown tokens,          *)
(* malformed updates), overlapping or not, CONTENT equals its value at     *)
(* process start.                                                          *)
(***************************************************************************)
C8_CatalogUnchanged == Catalog = _build_content

\* A callback naming an unknown category has been handled with an edit
\* while the answer to a text message is in flight, after a message has
\* been delivered.
C8_Witness ==
    \E r, t \in InProgress :
        /\ r.pc = "done"
        /\ IsWellFormedCallback(r)
        /\ Token(r) = Join2(s_cat, s_unknown)
        /\ Len(r.outbound) = 1
        /\ t # r
        /\ t.pc = "awaiting"
        /\ t.outbound[1].call.method = "sendMessage"
        /\ shown # NoMessage

(***************************************************************************)
(* C9.  A message with a non-empty text (and a chat id) is answered with   *)
(* exactly one sendMessage to that chat carrying the root menu, whatever   *)
(* the text; a message without text, or with an empty text, produces no    *)
(* call.                                                                   *)
(***************************************************************************)
HasMessageObject(r) ==
    /\ r.request.t = "dict"
    /\ HasKey(r.request, s_message)
    /\ ValueOf(r.request, s_message).t = "dict"

MessageText(r) == ValueOf(ValueOf(r.request, s_message), s_text)

HasTextMessage(r) ==
    /\ HasMessageObject(r)
    /\ HasKey(ValueOf(r.request, s_message), s_text)
    /\ MessageText(r).t = "str"
    /\ MessageText(r).v # <<>>
    /\ HasKey(ValueOf(r.request, s_message), s_chat)
    /\ ValueOf(ValueOf(r.request, s_message), s_chat).t = "dict"
    /\ HasKey(ValueOf(ValueOf(r.request, s_message), s_chat), s_id)

HasTextlessMessage(r) ==
    /\ HasMessageObject(r)
    /\ HasKey(ValueOf(r.request, s_message), s_text) =>
          MessageText(r) = None \/ MessageText(r) = Str(<<>>)

C9_MessageGetsRootMenu ==
    \A r \in InProgress :
        Dispatched(r) =>
            /\ HasTextMessage(r) =>
                  /\ Len(r.outbound) = 1
                  /\ r.outbound[1].call.method = "sendMessage"
                  /\ r.outbound[1].call.chat_id =
                         ValueOf(ValueOf(ValueOf(r.request, s_message), s_chat), s_id)
                  /\ IsRootMenu(r.outbound[1].call.reply_markup)
            /\ HasTextlessMessage(r) => r.outbound = <<>>

\* The text /start from chat 2 has been answered and acknowledged while
\* the answer to a text from chat 1 is still in flight.
C9_Witness ==
    \E r, t \in InProgress :
        /\ r.pc = "done"
        /\ HasTextMessage(r)
        /\ MessageText(r) = Str(s_start)
        /\ Len(r.outbound) = 1
        /\ r.outbound[1].call.chat_id = Num(2)
        /\ r.response = OkResponse
        /\ t # r
        /\ t.pc = "awaiting"
        /\ HasTextMessage(t)
        /\ t.outbound[1].call.chat_id = Num(1)

(***************************************************************************)
(* C10.  Token round trip: every token the bot places on a button, sent    *)
(* back as a callback, is recognised and resolves to the catalog node      *)
(* whose button carried it (a cat token to the subcategory list of that    *)
(* category, a sub token to the item list of that subcategory, an item     *)
(* token to the text of that item); distinct buttons carry distinct        *)
(* tokens; no view reached this way has an empty keyboard or an empty      *)
(* detail text.                                                            *)
(***************************************************************************)
\* The answer of the router to a press of a button carrying token.
Press(token) ==
    handle_callback_query(
        ValueOf(CallbackUpdate(Num(1), Num(1), token), s_callback_query), Catalog)

\* The result r shows exactly the catalog node at path node.
Resolves(node, r) ==
    /\ r.exc = ""
    /\ Len(r.ops) = 1
    /\ r.ops[1].method = "editMessageText"
    /\ HasKey(_build_content, node[1])
    /\ LET subs == ValueOf(_build_content, node[1])
       IN  IF Len(node) = 1
           THEN /\ Labels(r.ops[1].reply_markup) = keys(subs)
                /\ Len(keys(subs)) > 0
           ELSE /\ HasKey(subs, node[2])
                /\ LET items == ValueOf(subs, node[2])
                   IN  IF Len(node) = 2
                       THEN /\ Labels(r.ops[1].reply_markup) = keys(items)
                            /\ Len(keys(items)) > 0
                       ELSE /\ HasKey(items, node[3])
                            /\ r.ops[1].reply_markup = None
                            /\ r.ops[1].text # <<>>
                            /\ LET t == ValueOf(ValueOf(items, node[3]), s_text).v
                               IN  /\ t # <<>>
                                   /\ Len(r.ops[1].text) >= Len(t)
                                   /\ SubSeq(r.ops[1].text, 1, Len(t)) = t

\* The buttons of a keyboard with the path of the node each stands for.
Placed(path, m) ==
    { [node |-> path \o <<Buttons(m)[i].text>>, token |-> Buttons(m)[i].callback_data] :
        i \in 1..Len(Buttons(m)) }

\* The answer of the router to such a press with the catalog as built.
PressAsBuilt(token) ==
    handle_callback_query(
        ValueOf(CallbackUpdate(Num(1), Num(1), token), s_callback_query),
        _build_content)

\* All buttons that navigation from the root menu can put on screen, with
\* the catalog as built.
RootButtons ==
    Placed(<<>>,
           handle_message(MessageBody(1, s_hi), _build_content).ops[1].reply_markup)
SubButtons ==
    UNION { Placed(b.node, PressAsBuilt(b.token).ops[1].reply_markup) :
                b \in RootButtons }
ItemButtons ==
    UNION { Placed(b.node, PressAsBuilt(b.token).ops[1].reply_markup) :
                b \in SubButtons }
AllButtons == RootButtons \cup SubButtons \cup ItemButtons

\* Distinct buttons carry distinct tokens, and every token resolves to the
\* node of its button.
TokensIdentifyNodes ==
    /\ \A x, y \in AllButtons : x.token = y.token => x.node = y.node
    /\ \A x \in AllButtons : Resolves(x.node, PressAsBuilt(x.token))

\* The path of the node whose view the invocation rendered.
ViewPath(r) ==
    IF HasMessageObject(r) THEN <<>> ELSE Tail(split(Token(r), s_pipe[1]))

\* The invocation has just rendered a view of the catalog.
RenderedCatalogView(r) ==
    /\ r.pc = "awaiting"
    /\ Len(r.outbound) = 1
    /\ \/ HasTextMessage(r)
       \/ IsWellFormedCallback(r) /\ NamesCatalogNode(split(Token(r), s_pipe[1]))

C10_TokenRoundTrip ==
    \A r \in InProgress :
        RenderedCatalogView(r) =>
            /\ \A b \in Placed(ViewPath(r), r.outbound[1].call.reply_markup) :
                  Resolves(b.node, Press(b.token))
            /\ Len(ViewPath(r)) < 3 =>
                  Len(Buttons(r.outbound[1].call.reply_markup)) > 0
            /\ Len(ViewPath(r)) = 3 => r.outbound[1].call.text # <<>>
            /\ Placed(ViewPath(r), r.outbound[1].call.reply_markup)
                   \subseteq AllButtons
            /\ TokensIdentifyNodes

\* The user pressed a button of an item list that is on screen, and the
\* router answered with the detail text of that item, while the answer to
\* a text message is in flight.
C10_Witness ==
    \E r, t \in InProgress :
        /\ r.pc = "awaiting"
        /\ IsWellFormedCallback(r)
        /\ split(Token(r), s_pipe[1])[1] = s_item
        /\ \E i \in 1..Len(Buttons(shown.reply_markup)) :
              Buttons(shown.reply_markup)[i].callback_data = Token(r)
        /\ OriginChatId(r) = shown.chat_id
        /\ OriginMessageId(r) = shown.message_id
        /\ Len(r.outbound) = 1
        /\ r.outbound[1].call.reply_markup = None
        /\ Len(r.outbound[1].call.text) > 64
        /\ t # r
        /\ t.pc = "awaiting"
        /\ HasTextMessage(t)

(***************************************************************************)
(* C11.  A callback event never creates a new message: an invocation that  *)
(* handles a callback event issues at most one call, that call is an       *)
(* editMessageText, and it addresses the chat id and the message id of the *)
(* callback's originating message; sendMessage is issued only for updates  *)
(* that carry a message.                                                   *)
(***************************************************************************)
C11_CallbackEditsInPlace ==
    \A r \in InProgress :
        /\ IsCallbackEvent(r.request) =>
              /\ Len(r.outbound) <= 1
              /\ \A i \in 1..Len(r.outbound) :
                    /\ r.outbound[i].call.method = "editMessageText"
                    /\ IsWellFormedCallback(r)
                    /\ r.outbound[i].call.chat_id = OriginChatId(r)
                    /\ r.outbound[i].call.message_id = OriginMessageId(r)
        /\ \A i \in 1..Len(r.outbound) :
              r.outbound[i].call.method = "sendMessage" =>
                  r.request.t = "dict" /\ HasKey(r.request, s_message)

\* The user pressed a button of message 2 in chat 2; the one call of the
\* invocation edited that message and the invocation was acknowledged,
\* while a sendMessage of another invocation is in flight.
C11_Witness ==
    \E r, t \in InProgress :
        /\ r.pc = "done"
        /\ IsWellFormedCallback(r)
        /\ OriginChatId(r) = Num(2)
        /\ OriginMessageId(r) = Num(2)
        /\ Len(r.outbound) = 1
        /\ r.outbound[1].call.method = "editMessageText"
        /\ r.outbound[1].state = "returned"
        /\ shown.chat_id = Num(2)
        /\ shown.message_id = Num(2)
        /\ shown.reply_markup = r.outbound[1].call.reply_markup
        /\ r.response = OkResponse
        /\ t # r
        /\ t.pc = "awaiting"
        /\ t.outbound[1].call.method = "sendMessage"

====
